---- MODULE Spec2Model ----
(***************************************************************************)
(* Streaming response decoders of src/lib/eliza.ts:                        *)
(*   chatStream, chatWithAgentStream   (line grammar,  "data: {json}\n")   *)
(*   sendCharacterMessageStream        (block grammar, "event:/data:\n\n") *)
(* and the consumer sendCharacterMessage; the auth module (token storage,  *)
(* signOut, getUser, refreshSession, handleCallback) with getBalance and   *)
(* the useElizaAuth hook; the hooks of src/hooks/use-eliza.ts and          *)
(* ChatInterface of src/app/page.tsx.                                      *)
(*                                                                         *)
(* Text is a sequence of one-character strings.  A byte of the response    *)
(* body is written as the ASCII character it encodes; the two bytes of the *)
(* UTF-8 encoding of U+00E9 are written "xC3" and "xA9".  The decoded      *)
(* character U+00E9 is written "U+00E9" and the replacement character      *)
(* "U+FFFD".                                                               *)
(***************************************************************************)
EXTENDS Integers, Sequences, FiniteSets, TLC

(***************************************************************************)
(* String primitives of the JavaScript runtime used by the decoders.       *)
(***************************************************************************)

NL == "\n"

\* s.slice(n): the characters of s after the first n
Slice(s, n) == IF n >= Len(s) THEN <<>> ELSE SubSeq(s, n + 1, Len(s))

\* s.startsWith(p)
StartsWith(s, p) == Len(s) >= Len(p) /\ SubSeq(s, 1, Len(p)) = p

\* the occurrence of p in s at index i (1-based)
OccursAt(s, p, i) == i + Len(p) - 1 <= Len(s) /\ SubSeq(s, i, i + Len(p) - 1) = p

\* s.includes(p)
Includes(s, p) == \E i \in 1..(Len(s) + 1) : OccursAt(s, p, i)

\* s.indexOf(p): the index of the first occurrence of p in s, 0 when there
\* is none
IndexOf(s, p) ==
    LET hits == {i \in 1..Len(s) : OccursAt(s, p, i)}
    IN  IF hits = {} THEN 0 ELSE CHOOSE i \in hits : \A j \in hits : i <= j

\* s.split(sep) for a non-empty separator: left to right, non-overlapping;
\* always returns at least one element, the last one being the text after
\* the last separator
RECURSIVE Split(_, _)
RECURSIVE SplitAt(_, _, _)
SplitAt(s, sep, i) ==
    IF i = 0 THEN <<s>>
    ELSE <<SubSeq(s, 1, i - 1)>> \o Split(Slice(s, i + Len(sep) - 1), sep)

Split(s, sep) == SplitAt(s, sep, IndexOf(s, sep))

\* white space as String.prototype.trim and JSON.parse see it, within the alphabet
\* an array without its last element (what is left after pop())
AllButLast(parts) == SubSeq(parts, 1, Len(parts) - 1)

IsSpace(c) == c \in {" ", NL, "\t", "\r"}

RECURSIVE TrimStart(_)
TrimStart(s) == IF s # <<>> /\ IsSpace(Head(s)) THEN TrimStart(Tail(s)) ELSE s

RECURSIVE TrimEnd(_)
TrimEnd(s) ==
    IF s # <<>> /\ IsSpace(s[Len(s)]) THEN TrimEnd(SubSeq(s, 1, Len(s) - 1)) ELSE s

\* s.trim()
Trim(s) == TrimEnd(TrimStart(s))

(***************************************************************************)
(* TextDecoder (UTF-8), decode(value, { stream: true }).  pend is the      *)
(* incomplete multi-byte sequence the decoder carries between calls.       *)
(***************************************************************************)

IsLead(b) == b = "xC3"
IsCont(b) == b = "xA9"

\* decoder.decode(value, { stream: true }) with the carried bytes pend.
\* Over all = pend \o value: a lead byte followed by a continuation byte
\* decodes to U+00E9 (at the continuation byte); a lead byte followed by
\* another byte, and a continuation byte that follows no lead byte, decode
\* to U+FFFD; a lead byte at the end is carried to the next call.
DecodeStream(bytes, pend) ==
    LET all == pend \o bytes
        n == Len(all)
        at == [i \in 1..n |->
                 IF IsLead(all[i])
                 THEN IF i < n /\ ~IsCont(all[i + 1]) THEN "U+FFFD" ELSE ""
                 ELSE IF IsCont(all[i])
                 THEN IF i > 1 /\ IsLead(all[i - 1]) THEN "U+00E9" ELSE "U+FFFD"
                 ELSE all[i]]
        Emitted(c) == c # ""
    IN  [text |-> SelectSeq(at, Emitted),
         pend |-> IF n > 0 /\ IsLead(all[n]) THEN <<all[n]>> ELSE <<>>]

(***************************************************************************)
(* JSON.parse.  A parsed value is a record: k is its kind ("str", "num",   *)
(* "true", "false", "null", "arr", "obj"), s the characters of a string or *)
(* the lexeme of a number, xs the elements of an array or the members      *)
(* [key, val] of an object.  Undefined is the JavaScript undefined.        *)
(* Escapes of the form \uXXXX are outside the modelled alphabet.           *)
(***************************************************************************)

JVal(kind, chars, items) == [k |-> kind, s |-> chars, xs |-> items]

Undefined == JVal("undefined", <<>>, <<>>)

JStr(chars) == JVal("str", chars, <<>>)

ParseFail == [ok |-> FALSE, v |-> Undefined, p |-> 0]

ParseOk(val, next) == [ok |-> TRUE, v |-> val, p |-> next]

IsDigit(c) == c \in {"0", "1", "2", "3", "4", "5", "6", "7", "8", "9"}

CharAt(s, i) == IF i >= 1 /\ i <= Len(s) THEN s[i] ELSE "EOF"

RECURSIVE SkipWs(_, _)
SkipWs(s, i) == IF IsSpace(CharAt(s, i)) THEN SkipWs(s, i + 1) ELSE i

\* index after the run of digits that starts at i
RECURSIVE SkipDigits(_, _)
SkipDigits(s, i) == IF IsDigit(CharAt(s, i)) THEN SkipDigits(s, i + 1) ELSE i

\* the character an escape \c stands for, "" when \c is no simple escape
Unescape(c) ==
    CASE c = "\"" -> "\""
      [] c = "\\" -> "\\"
      [] c = "/" -> "/"
      [] c = "n" -> NL
      [] c = "t" -> "\t"
      [] c = "r" -> "\r"
      [] OTHER -> ""

\* the body of a string literal from index i, up to the closing quote
RECURSIVE ParseStringBody(_, _, _)
ParseStringBody(s, i, acc) ==
    LET c == CharAt(s, i)
        esc == Unescape(CharAt(s, i + 1))
    IN  IF c = "EOF" \/ c \in {NL, "\t", "\r"} THEN ParseFail
        ELSE IF c = "\"" THEN ParseOk(JStr(acc), i + 1)
        ELSE IF c = "\\"
             THEN IF esc = "" THEN ParseFail
                  ELSE ParseStringBody(s, i + 2, Append(acc, esc))
        ELSE ParseStringBody(s, i + 1, Append(acc, c))

ParseString(s, i) ==
    IF CharAt(s, i) = "\"" THEN ParseStringBody(s, i + 1, <<>>) ELSE ParseFail

\* -?(0|[1-9][0-9]*)(\.[0-9]+)?([eE][+-]?[0-9]+)?
\* a: after the sign, b: after the integer part, c: after the fraction,
\* e: after the exponent mark and its sign, d: after the exponent
ParseNumber(s, i) ==
    LET a == IF CharAt(s, i) = "-" THEN i + 1 ELSE i
        b == IF CharAt(s, a) = "0" THEN a + 1 ELSE SkipDigits(s, a)
        c == IF CharAt(s, b) = "." THEN SkipDigits(s, b + 1) ELSE b
        e == IF CharAt(s, c) \in {"e", "E"}
             THEN IF CharAt(s, c + 1) \in {"+", "-"} THEN c + 2 ELSE c + 1
             ELSE c
        d == IF e = c THEN c ELSE SkipDigits(s, e)
    IN  IF b = a \/ (CharAt(s, b) = "." /\ c = b + 1) \/ (e # c /\ d = e)
        THEN ParseFail
        ELSE ParseOk(JVal("num", SubSeq(s, i, d - 1), <<>>), d)

ParseLiteral(s, i, kind, word) ==
    IF OccursAt(s, word, i) THEN ParseOk(JVal(kind, <<>>, <<>>), i + Len(word))
    ELSE ParseFail

\* a later member with the same key replaces the value of the earlier one
PutMember(ms, key, val) ==
    IF \E j \in 1..Len(ms) : ms[j].key = key
    THEN [j \in 1..Len(ms) |-> IF ms[j].key = key THEN [key |-> key, val |-> val] ELSE ms[j]]
    ELSE Append(ms, [key |-> key, val |-> val])

RECURSIVE ParseValue(_, _)
RECURSIVE ParseElements(_, _, _)
RECURSIVE ParseMembers(_, _, _)

\* after an element r of an array, j at the next character that is no space
AfterElement(s, acc, r, j) ==
    IF ~r.ok THEN ParseFail
    ELSE IF CharAt(s, j) = "," THEN ParseElements(s, SkipWs(s, j + 1), Append(acc, r.v))
    ELSE IF CharAt(s, j) = "]" THEN ParseOk(JVal("arr", <<>>, Append(acc, r.v)), j + 1)
    ELSE ParseFail

ElementEnd(s, acc, r) == AfterElement(s, acc, r, SkipWs(s, r.p))

\* the elements of an array, i at the first character of an element
ParseElements(s, i, acc) == ElementEnd(s, acc, ParseValue(s, i))

\* after a member key: r of an object, j at the next character that is no space
AfterMember(s, acc, key, r, j) ==
    IF ~r.ok THEN ParseFail
    ELSE IF CharAt(s, j) = ","
         THEN ParseMembers(s, SkipWs(s, j + 1), PutMember(acc, key.v.s, r.v))
    ELSE IF CharAt(s, j) = "}"
         THEN ParseOk(JVal("obj", <<>>, PutMember(acc, key.v.s, r.v)), j + 1)
    ELSE ParseFail

MemberEnd(s, acc, key, r) == AfterMember(s, acc, key, r, SkipWs(s, r.p))

\* after a member's key, c at the next character that is no space
AfterKey(s, acc, key, c) ==
    IF ~key.ok \/ CharAt(s, c) # ":" THEN ParseFail
    ELSE MemberEnd(s, acc, key, ParseValue(s, SkipWs(s, c + 1)))

KeyEnd(s, acc, key) == AfterKey(s, acc, key, SkipWs(s, key.p))

\* the members of an object, i at the opening quote of a key
ParseMembers(s, i, acc) == KeyEnd(s, acc, ParseString(s, i))

\* an object or an array, j at the first character after the bracket that
\* is no space
ParseObject(s, j) ==
    IF CharAt(s, j) = "}" THEN ParseOk(JVal("obj", <<>>, <<>>), j + 1)
    ELSE ParseMembers(s, j, <<>>)

ParseArray(s, j) ==
    IF CharAt(s, j) = "]" THEN ParseOk(JVal("arr", <<>>, <<>>), j + 1)
    ELSE ParseElements(s, j, <<>>)

ValueAt(s, i, c) ==
    CASE c = "{" -> ParseObject(s, SkipWs(s, i + 1))
      [] c = "[" -> ParseArray(s, SkipWs(s, i + 1))
      [] c = "\"" -> ParseString(s, i)
      [] c = "-" \/ IsDigit(c) -> ParseNumber(s, i)
      [] c = "t" -> ParseLiteral(s, i, "true", <<"t", "r", "u", "e">>)
      [] c = "f" -> ParseLiteral(s, i, "false", <<"f", "a", "l", "s", "e">>)
      [] c = "n" -> ParseLiteral(s, i, "null", <<"n", "u", "l", "l">>)
      [] OTHER -> ParseFail

ParseValue(s, i) == ValueAt(s, i, CharAt(s, i))

\* the whole text must be one value, white space around it allowed
WholeValue(s, r) == IF r.ok /\ SkipWs(s, r.p) > Len(s) THEN r ELSE ParseFail

\* JSON.parse(s): ok is FALSE where JSON.parse throws a SyntaxError
JSONParse(s) == WholeValue(s, ParseValue(s, SkipWs(s, 1)))

\* data.name: the property of a parsed value (undefined when absent, and
\* on every value that is not an object; the caller handles null)
Prop(data, name) ==
    IF data.k = "obj" /\ \E j \in 1..Len(data.xs) : data.xs[j].key = name
    THEN data.xs[CHOOSE j \in 1..Len(data.xs) : data.xs[j].key = name].val
    ELSE Undefined

\* JavaScript truthiness of a parsed value
Truthy(v) ==
    /\ v.k \notin {"undefined", "null", "false"}
    /\ ~(v.k = "str" /\ v.s = <<>>)
    \* a number is falsy when its mantissa (the part before an exponent) is zero
    /\ ~(v.k = "num" /\ \A j \in 1..Len(v.s) :
            (\A i \in 1..j : v.s[i] \notin {"e", "E"}) => v.s[j] \in {"0", "-", "."})

(***************************************************************************)
(* Events.  The line-grammar generators yield the parsed payload itself    *)
(* (type "payload", the value in message); sendCharacterMessageStream      *)
(* yields { type, ... } objects.                                           *)
(***************************************************************************)

Event(type, text, messageId, message, error) ==
    [type |-> type, text |-> text, messageId |-> messageId, message |-> message,
     error |-> error]

PayloadEvent(v) == Event("payload", Undefined, Undefined, v, Undefined)

ChunkEvent(text, messageId) == Event("chunk", text, messageId, Undefined, Undefined)

MessageEvent(data) == Event("message", Undefined, Undefined, data, Undefined)

ThinkingEvent(data) == Event("thinking", Undefined, Undefined, data, Undefined)

ErrorEvent(error) == Event("error", Undefined, Undefined, Undefined, error)

DoneEvent == Event("done", Undefined, Undefined, Undefined, Undefined)

\* the outcome of one iteration of the for loop over the frames of a chunk
Yield(ev) == [kind |-> "yield", ev |-> ev]

Skip == [kind |-> "skip", ev |-> DoneEvent]

Throw == [kind |-> "throw", ev |-> DoneEvent]

(***************************************************************************)
(* The three generators and their grammars.                                *)
(***************************************************************************)

LineFns == {"chatStream", "chatWithAgentStream"}

BlockFns == {"sendCharacterMessageStream"}

Fns == LineFns \cup BlockFns

\* 'data: '
DataPrefix ==
    <<"d", "a", "t", "a", ":", " ">>

\* 'event: '
EventPrefix ==
    <<"e", "v", "e", "n", "t", ":", " ">>

\* '[DONE]'
DoneMarker ==
    <<"[", "D", "O", "N", "E", "]">>

\* 'chunk'
NameChunk ==
    <<"c", "h", "u", "n", "k">>

\* 'message'
NameMessage ==
    <<"m", "e", "s", "s", "a", "g", "e">>

\* 'error'
NameError ==
    <<"e", "r", "r", "o", "r">>

\* 'done'
NameDone ==
    <<"d", "o", "n", "e">>

\* 'thinking'
NameThinking ==
    <<"t", "h", "i", "n", "k", "i", "n", "g">>

\* 'chunk'
KeyChunk ==
    <<"c", "h", "u", "n", "k">>

\* 'messageId'
KeyMessageId ==
    <<"m", "e", "s", "s", "a", "g", "e", "I", "d">>

\* 'type'
KeyType ==
    <<"t", "y", "p", "e">>

\* 'message'
KeyMessage ==
    <<"m", "e", "s", "s", "a", "g", "e">>

\* 'error'
KeyError ==
    <<"e", "r", "r", "o", "r">>

\* 'Unknown error'
UnknownError ==
    <<"U", "n", "k", "n", "o", "w", "n", " ", "e", "r", "r", "o", "r">>

\* the frame delimiter of split(): '\n' (line grammar), '\n\n' (block grammar)
Delim(f) == IF f \in LineFns THEN <<NL>> ELSE <<NL, NL>>

(***************************************************************************)
(* chatStream / chatWithAgentStream: the body of `for (const line of       *)
(* lines)`.                                                                *)
(***************************************************************************)

\* the statements inside try { }: JSON.parse throws on a malformed payload
YieldParsed(r) == IF r.ok THEN Yield(PayloadEvent(r.v)) ELSE Throw

LineTry(line) == YieldParsed(JSONParse(Slice(line, 6)))

\* if (line.startsWith('data: ') && !line.includes('[DONE]'))
LineGuard(line) == StartsWith(line, DataPrefix) /\ ~Includes(line, DoneMarker)

\* a try block without its catch
CatchNothing(r) == r

\* catch { }: an exception thrown inside the try block is dropped
Catch(r) == IF r.kind = "throw" THEN Skip ELSE r

\* try { ... } catch { /* Skip malformed chunks */ }
LineStep(line) == IF LineGuard(line) THEN Catch(LineTry(line)) ELSE Skip

(***************************************************************************)
(* sendCharacterMessageStream: the body of `for (const message of          *)
(* messages)`.                                                             *)
(***************************************************************************)

\* a loop over the lines of a block in which a `data: ` line replaces the
\* payload instead of extending it
RECURSIVE BlockFieldsLastData(_, _, _)
BlockFieldsLastData(lines, eventType, dataStr) ==
    IF lines = <<>> THEN [eventType |-> eventType, dataStr |-> dataStr]
    ELSE IF StartsWith(Head(lines), EventPrefix)
    THEN BlockFieldsLastData(Tail(lines), Trim(Slice(Head(lines), 7)), dataStr)
    ELSE IF StartsWith(Head(lines), DataPrefix)
    THEN BlockFieldsLastData(Tail(lines), eventType, Slice(Head(lines), 6))
    ELSE BlockFieldsLastData(Tail(lines), eventType, dataStr)

\* the loop over the lines of a block: the last `event: ` line names the
\* event, the contents of the `data: ` lines are concatenated
RECURSIVE BlockFields(_, _, _)
BlockFields(lines, eventType, dataStr) ==
    IF lines = <<>> THEN [eventType |-> eventType, dataStr |-> dataStr]
    ELSE IF StartsWith(Head(lines), EventPrefix)
    THEN BlockFields(Tail(lines), Trim(Slice(Head(lines), 7)), dataStr)
    ELSE IF StartsWith(Head(lines), DataPrefix)
    THEN BlockFields(Tail(lines), eventType, dataStr \o Slice(Head(lines), 6))
    ELSE BlockFields(Tail(lines), eventType, dataStr)

\* switch (eventType): reading a property of null throws a NameError
BlockSwitch(eventType, data) ==
    CASE eventType = NameChunk ->
           IF data.k = "null" THEN Throw
           ELSE Yield(ChunkEvent(Prop(data, KeyChunk), Prop(data, KeyMessageId)))
      [] eventType = NameMessage ->
           IF data.k = "null" THEN Throw
           ELSE IF Prop(data, KeyType) = JStr(NameThinking) THEN Yield(ThinkingEvent(data))
           ELSE Yield(MessageEvent(data))
      [] eventType = NameError ->
           IF data.k = "null" THEN Throw
           ELSE IF Truthy(Prop(data, KeyMessage)) THEN Yield(ErrorEvent(Prop(data, KeyMessage)))
           ELSE IF Truthy(Prop(data, KeyError)) THEN Yield(ErrorEvent(Prop(data, KeyError)))
           ELSE Yield(ErrorEvent(JStr(UnknownError)))
      [] eventType = NameDone -> Yield(DoneEvent)
      [] OTHER -> Skip

\* the statements inside try { }
SwitchParsed(eventType, r) == IF r.ok THEN BlockSwitch(eventType, r.v) ELSE Throw

BlockTry(f) == SwitchParsed(f.eventType, JSONParse(f.dataStr))

\* if (!dataStr) continue; try { ... } catch { /* Skip malformed data */ }
BlockParsed(f) == IF f.dataStr = <<>> THEN Skip ELSE Catch(BlockTry(f))

\* if (!message.trim()) continue;
BlockStep(message) ==
    IF Trim(message) = <<>> THEN Skip
    ELSE BlockParsed(BlockFields(Split(message, <<NL>>), NameMessage, <<>>))

FrameStep(f, frame) == IF f \in LineFns THEN LineStep(frame) ELSE BlockStep(frame)

\* the for loop over the frames of one chunk, run up to its next yield:
\* the event yielded (if any), the frames left, whether an exception escaped
RECURSIVE RunLoop(_, _)
RECURSIVE LoopStep(_, _, _)
LoopStep(f, frames, r) ==
    IF r.kind = "skip" THEN RunLoop(f, Tail(frames))
    ELSE [kind |-> r.kind, ev |-> r.ev, rest |-> Tail(frames)]

RunLoop(f, frames) ==
    IF frames = <<>> THEN [kind |-> "end", ev |-> DoneEvent, rest |-> <<>>]
    ELSE LoopStep(f, frames, FrameStep(f, Head(frames)))

\* every event the for loop yields over frames, run to its end
RECURSIVE LoopEvents(_, _)
RECURSIVE Collect(_, _)
Collect(f, r) == IF r.kind = "yield" THEN <<r.ev>> \o LoopEvents(f, r.rest) ELSE <<>>

LoopEvents(f, frames) == Collect(f, RunLoop(f, frames))

(***************************************************************************)
(* Inputs: the response (status, body) a run is started on.                *)
(***************************************************************************)

\* the number of frames (pieces of the libraries below) of a generated body
MaxFrames == 2

\* the largest number of bytes one read() delivers, short of "all the rest"
MaxChunk == 3

\* 'data: {"c":"\xe9"}\n'
LineText ==
    <<"d", "a", "t", "a", ":", " ", "{", "\"", "c", "\"", ":", "\"", "xC3",
      "xA9", "\"", "}", NL>>

\* 'data: {x\n'
LineMalformed ==
    <<"d", "a", "t", "a", ":", " ", "{", "x", NL>>

\* 'data: [DONE]\n'
LineDone ==
    <<"d", "a", "t", "a", ":", " ", "[", "D", "O", "N", "E", "]", NL>>

\* 'data: "[DONE]"\n'
LineQuotedDone ==
    <<"d", "a", "t", "a", ":", " ", "\"", "[", "D", "O", "N", "E", "]", "\"",
      NL>>

\* ': k\n'
LineComment ==
    <<":", " ", "k", NL>>

\* 'data: 1'
LineUnterminated ==
    <<"d", "a", "t", "a", ":", " ", "1">>

\* 'event: chunk\ndata: {"chunk":"\xe9"}\n\n'
BlockChunk ==
    <<"e", "v", "e", "n", "t", ":", " ", "c", "h", "u", "n", "k", NL, "d",
      "a", "t", "a", ":", " ", "{", "\"", "c", "h", "u", "n", "k", "\"", ":",
      "\"", "xC3", "xA9", "\"", "}", NL, NL>>

\* 'data: {"type":"thinking"}\n\n'
BlockThinking ==
    <<"d", "a", "t", "a", ":", " ", "{", "\"", "t", "y", "p", "e", "\"", ":",
      "\"", "t", "h", "i", "n", "k", "i", "n", "g", "\"", "}", NL, NL>>

\* 'event: error\ndata: {"message":"x"}\n\n'
BlockError ==
    <<"e", "v", "e", "n", "t", ":", " ", "e", "r", "r", "o", "r", NL, "d",
      "a", "t", "a", ":", " ", "{", "\"", "m", "e", "s", "s", "a", "g", "e",
      "\"", ":", "\"", "x", "\"", "}", NL, NL>>

\* 'event: done\ndata: {}\n\n'
BlockDone ==
    <<"e", "v", "e", "n", "t", ":", " ", "d", "o", "n", "e", NL, "d", "a",
      "t", "a", ":", " ", "{", "}", NL, NL>>

\* 'data: {x\n\n'
BlockMalformed ==
    <<"d", "a", "t", "a", ":", " ", "{", "x", NL, NL>>

\* 'data: {"a":\ndata: 1}\n\n'
BlockSplitData ==
    <<"d", "a", "t", "a", ":", " ", "{", "\"", "a", "\"", ":", NL, "d", "a",
      "t", "a", ":", " ", "1", "}", NL, NL>>

\* 'event: chunk\n\n'
BlockNoData ==
    <<"e", "v", "e", "n", "t", ":", " ", "c", "h", "u", "n", "k", NL, NL>>

\* 'data: 1\n'
BlockUnterminated ==
    <<"d", "a", "t", "a", ":", " ", "1", NL>>

\* 'data: {"choices":[{"delta":{"content":"Hi"}}]}\n\ndata: [DONE]\n\n'
ScenarioHi ==
    <<"d", "a", "t", "a", ":", " ", "{", "\"", "c", "h", "o", "i", "c", "e",
      "s", "\"", ":", "[", "{", "\"", "d", "e", "l", "t", "a", "\"", ":",
      "{", "\"", "c", "o", "n", "t", "e", "n", "t", "\"", ":", "\"", "H",
      "i", "\"", "}", "}", "]", "}", NL, NL, "d", "a", "t", "a", ":", " ",
      "[", "D", "O", "N", "E", "]", NL, NL>>

\* 'data: {not json}\n\ndata: [DONE]\n\n'
ScenarioMalformed ==
    <<"d", "a", "t", "a", ":", " ", "{", "n", "o", "t", " ", "j", "s", "o",
      "n", "}", NL, NL, "d", "a", "t", "a", ":", " ", "[", "D", "O", "N",
      "E", "]", NL, NL>>

\* 'event: chunk\ndata: {"chunk":"He","messageId":"m1"}\n\nevent: chunk\ndata: {"chunk":"llo","messageId":"m1"}\n\nevent: done\ndata: {}\n\n'
ScenarioHello ==
    <<"e", "v", "e", "n", "t", ":", " ", "c", "h", "u", "n", "k", NL, "d",
      "a", "t", "a", ":", " ", "{", "\"", "c", "h", "u", "n", "k", "\"", ":",
      "\"", "H", "e", "\"", ",", "\"", "m", "e", "s", "s", "a", "g", "e",
      "I", "d", "\"", ":", "\"", "m", "1", "\"", "}", NL, NL, "e", "v", "e",
      "n", "t", ":", " ", "c", "h", "u", "n", "k", NL, "d", "a", "t", "a",
      ":", " ", "{", "\"", "c", "h", "u", "n", "k", "\"", ":", "\"", "l",
      "l", "o", "\"", ",", "\"", "m", "e", "s", "s", "a", "g", "e", "I", "d",
      "\"", ":", "\"", "m", "1", "\"", "}", NL, NL, "e", "v", "e", "n", "t",
      ":", " ", "d", "o", "n", "e", NL, "d", "a", "t", "a", ":", " ", "{",
      "}", NL, NL>>

LinePieces ==
    {LineText, LineMalformed, LineDone, LineQuotedDone, LineComment, LineUnterminated}

BlockPieces ==
    {BlockChunk, BlockThinking, BlockError, BlockDone, BlockNoData, BlockUnterminated}

Pieces(f) == IF f \in LineFns THEN LinePieces ELSE BlockPieces

Scenarios(f) ==
    IF f \in LineFns THEN {ScenarioHi, ScenarioMalformed}
    ELSE {ScenarioHello, BlockMalformed, BlockMalformed \o BlockChunk, BlockSplitData,
          BlockSplitData \o BlockNoData}

\* the concatenations of n pieces
RECURSIVE Bodies(_, _)
Bodies(f, n) ==
    IF n = 0 THEN {<<>>}
    ELSE {b \o p : b \in Bodies(f, n - 1), p \in Pieces(f)}

\* the bodies of successful responses
Inputs(f) == UNION {Bodies(f, n) : n \in 0..MaxFrames} \cup Scenarios(f)

\* the bodies of failed responses (the error text)
ErrorBodies == {<<>>, <<"n", "o">>}

Statuses == {200, 402, 500}

\* res.ok
ResOk(st) == st >= 200 /\ st <= 299

\* 'Eliza API Error ('
ElizaApiError ==
    <<"E", "l", "i", "z", "a", " ", "A", "P", "I", " ", "E", "r", "r", "o",
      "r", " ", "(">>

\* 'Agent chat error ('
AgentChatError ==
    <<"A", "g", "e", "n", "t", " ", "c", "h", "a", "t", " ", "e", "r", "r",
      "o", "r", " ", "(">>

\* 'Failed to send message ('
FailedToSend ==
    <<"F", "a", "i", "l", "e", "d", " ", "t", "o", " ", "s", "e", "n", "d",
      " ", "m", "e", "s", "s", "a", "g", "e", " ", "(">>

\* 'No response body'
NoResponseBody ==
    <<"N", "o", " ", "r", "e", "s", "p", "o", "n", "s", "e", " ", "b", "o",
      "d", "y">>

\* 'network error'
ReadFailure ==
    <<"n", "e", "t", "w", "o", "r", "k", " ", "e", "r", "r", "o", "r">>

\* 'SyntaxError'
UncaughtError ==
    <<"S", "y", "n", "t", "a", "x", "E", "r", "r", "o", "r">>

Digits == <<"0", "1", "2", "3", "4", "5", "6", "7", "8", "9">>

\* `${res.status}` for a three-digit status
StatusText(st) ==
    <<Digits[(st \div 100) + 1], Digits[((st \div 10) % 10) + 1], Digits[(st % 10) + 1]>>

\* await res.text(): the whole body decoded at once; an incomplete
\* multi-byte sequence at the end is replaced
Flushed(d) == IF d.pend = <<>> THEN d.text ELSE Append(d.text, "U+FFFD")

ResText(bytes) == Flushed(DecodeStream(bytes, <<>>))

ErrorPrefix(f) ==
    CASE f = "chatStream" -> ElizaApiError
      [] f = "chatWithAgentStream" -> AgentChatError
      [] OTHER -> FailedToSend

\* `<prefix>(${res.status}): ${await res.text()}`
HttpErrorMessage(f, st, bytes) ==
    ErrorPrefix(f) \o StatusText(st) \o <<")", ":", " ">> \o ResText(bytes)

(***************************************************************************)
(* State.                                                                  *)
(***************************************************************************)

VARIABLES
    fn,           \* the generator that runs
    consumer,     \* its consumer: a for-await loop, or sendCharacterMessage
    status,       \* res.status
    hasBody,      \* res.body is not null
    input,        \* the bytes of the response body
    pos,          \* the number of bytes read() has delivered
    chunks,       \* in how many chunks they came: "none", "one", "many"
    reader,       \* "none", "open", "closed" (end of stream), "errored", "cancelled"
    pend,         \* the incomplete byte sequence held by the TextDecoder
    buffer,       \* let buffer
    queue,        \* the frames the for loop has not reached yet
    events,       \* the events yielded so far, in order
    pc,           \* where the generator is suspended, or how it ended
    thrown,       \* the message of the Error the generator threw
    fullText,     \* sendCharacterMessage: let fullText
    onChunk,      \* sendCharacterMessage: the arguments of the onChunk calls
    onThinking,   \* sendCharacterMessage: the number of onThinking calls
    failure,      \* the message of the Error the consumer ended with
    outcome       \* the consumer: "running", "completed", "broke", "rejected"

\* the browser session of the auth module (eliza-auth) and the calls made
\* into it
VARIABLES
    hasWindow,    \* typeof window !== 'undefined'
    appId,        \* process.env.NEXT_PUBLIC_ELIZA_APP_ID || ''
    localStorage, \* the items under TOKEN_KEY and USER_CACHE_KEY (Null: no item)
    requests,     \* the fetch() calls made so far, in order
    settled,      \* how the fetch() calls that have settled ended, in order
    signOutPc,    \* signOut: "idle", or "logout" while it awaits its fetch
    signOuts,     \* the number of signOut calls that have completed
    reloads,      \* the number of window.location.reload() calls
    balancePc,    \* getBalance: "idle", or "fetch" while it awaits its fetch
    balance       \* how the last getBalance ended

\* generators that run side by side, each on a response of its own
VARIABLES
    generators    \* per generator object: its arguments, locals and events

\* the users of the auth module: getUser, refreshSession, handleCallback and
\* the useElizaAuth hook
VARIABLES
    clock,        \* Date.now()
    cachedAt,     \* cachedAt of the item under USER_CACHE_KEY
    getUserCall,  \* getUser: pc ("idle", "fetch"), its caller, its last result
    refreshCall,  \* refreshSession: pc ("idle", "fetch"), its last result
    callback,     \* handleCallback: pc, the token of the URL, its result
    hook          \* useElizaAuth: user, loading, error, hasToken of the last
                  \* render, and whether the effect that calls fetchUser is due

\* the component on the page and the state of the hook it uses
VARIABLES
    component,    \* "Chat", "AgentChat", "CharacterChat", "ChatInterface", "none"
    chat,         \* useChat: loading, error, the send calls started and in flight
    agentChat,    \* useAgentChat: messages, loading, error, the send calls
    characterChat, \* useCharacterChat: room, roomLoading, error, createRoom calls
    chatInterface \* ChatInterface with useChatStream: messages, loading, error

vars ==
    <<fn, consumer, status, hasBody, input, pos, chunks, reader, pend, buffer, queue, events,
      pc, thrown, fullText, onChunk, onThinking, failure, outcome,
      hasWindow, appId, localStorage, requests, settled, signOutPc, signOuts, reloads,
      balancePc, balance, generators,
      clock, cachedAt, getUserCall, refreshCall, callback, hook,
      component, chat, agentChat, characterChat, chatInterface>>

account == <<clock, cachedAt, getUserCall, refreshCall, callback, hook>>

hooks == <<component, chat, agentChat, characterChat, chatInterface>>

\* the state outside the single generator run and the auth session
elsewhere == <<generators, account, hooks>>

session ==
    <<hasWindow, appId, localStorage, requests, settled, signOutPc, signOuts, reloads,
      balancePc, balance>>

request == <<fn, consumer, status, hasBody, input>>

decoderVars == <<pos, chunks, reader, pend, buffer>>

consumerVars == <<fullText, onChunk, onThinking>>

Consumers(f) ==
    IF f \in BlockFns THEN {"forAwait", "sendCharacterMessage"} ELSE {"forAwait"}

\* no generator has been called yet
NotStarted ==
    /\ pos = 0
    /\ chunks = "none"
    /\ reader = "none"
    /\ pend = <<>>
    /\ buffer = <<>>
    /\ queue = <<>>
    /\ events = <<>>
    /\ pc = "start"
    /\ thrown = <<>>
    /\ fullText = <<>>
    /\ onChunk = <<>>
    /\ onThinking = 0
    /\ failure = <<>>
    /\ outcome = "running"

Null == "null"

\* localStorage without items
NoItems == [eliza_app_token |-> Null, eliza_app_user |-> Null]

\* no call into the auth module or to getBalance has been made yet
NoCalls ==
    /\ requests = <<>>
    /\ settled = <<>>
    /\ signOutPc = "idle"
    /\ signOuts = 0
    /\ reloads = 0
    /\ balancePc = "idle"
    /\ balance = "none"

\* nothing has called getUser, refreshSession or handleCallback, and no
\* component uses useElizaAuth
NoAccount ==
    /\ clock = 0
    /\ cachedAt = 0
    /\ getUserCall = [pc |-> "idle", caller |-> "hook", result |-> Null]
    /\ refreshCall = [pc |-> "idle", result |-> FALSE]
    /\ callback = [pc |-> "idle", token |-> Null, result |-> Null]
    /\ hook = [user |-> Null, loading |-> TRUE, error |-> Null, hasToken |-> FALSE,
               fetchDue |-> FALSE]

\* useCharacterChat(characterId) after its first render
CharacterChatOf(characterId) ==
    [characterId |-> characterId, room |-> Null, roomLoading |-> FALSE, error |-> Null,
     requests |-> 0, resets |-> 0, effectDue |-> TRUE]

\* the state of the other hooks of use-eliza.ts after their first render;
\* the error of useChatStream is <<>> (null) or <<message>>
Unused ==
    /\ chat = [loading |-> FALSE, error |-> Null, started |-> 0, pending |-> 0]
    /\ agentChat = [messages |-> <<>>, loading |-> FALSE, error |-> Null, calls |-> <<>>]
    /\ chatInterface = [messages |-> <<>>, loading |-> FALSE, error |-> <<>>, sends |-> 0,
                        streaming |-> FALSE]

\* no component that uses a hook of use-eliza.ts is on the page
NoHooks == component = "none" /\ Unused /\ characterChat = CharacterChatOf(Null)

Init ==
    /\ fn \in Fns
    /\ consumer \in Consumers(fn)
    /\ status \in Statuses
    /\ hasBody \in BOOLEAN
    /\ input \in (IF ~ResOk(status) THEN ErrorBodies
                  ELSE IF hasBody THEN Inputs(fn) ELSE {<<>>})
    /\ (~ResOk(status) => hasBody)
    /\ NotStarted
    /\ hasWindow = TRUE
    /\ appId = ""
    /\ localStorage = NoItems
    /\ NoCalls
    /\ generators = <<>>
    /\ NoAccount
    /\ NoHooks

(***************************************************************************)
(* The generators.                                                         *)
(***************************************************************************)

\* how the consumer's loop stands once the generator has moved to state p
OutcomeAt(p) ==
    CASE p = "done" -> "completed"
      [] p = "threw" -> "rejected"
      [] OTHER -> "running"

\* the consumer's pending next() settles as the generator reaches state p:
\* an exception of the generator leaves the consumer's loop as well
Settle ==
    /\ outcome' = OutcomeAt(pc')
    /\ failure' = IF pc' = "threw" THEN thrown' ELSE failure

\* the generator throws new Error(message)
ThrowError(message) ==
    /\ pc' = "threw"
    /\ thrown' = message
    /\ UNCHANGED events

\* the early exits before the read loop: the line-grammar generators throw,
\* sendCharacterMessageStream yields an error event and returns
FailBeforeStream(message) ==
    IF fn \in LineFns THEN ThrowError(message)
    ELSE /\ events' = Append(events, ErrorEvent(JStr(message)))
         /\ pc' = "yieldError"
         /\ UNCHANGED thrown

\* a generator that hands its newest event over ahead of the earlier ones
SuspendPrepends(r) ==
    /\ queue' = r.rest
    /\ events' = IF r.kind = "yield" THEN <<r.ev>> \o events ELSE events
    /\ pc' = CASE r.kind = "yield" -> "yieldFrame"
               [] r.kind = "throw" -> "threw"
               [] OTHER -> "reading"
    /\ thrown' = IF r.kind = "throw" THEN UncaughtError ELSE thrown

\* the for loop over the frames, from its current position to the next
\* yield, or to the next `await reader.read()`
Suspend(r) ==
    /\ queue' = r.rest
    /\ events' = IF r.kind = "yield" THEN Append(events, r.ev) ELSE events
    /\ pc' = CASE r.kind = "yield" -> "yieldFrame"
               [] r.kind = "throw" -> "threw"
               [] OTHER -> "reading"
    /\ thrown' = IF r.kind = "throw" THEN UncaughtError ELSE thrown

ContinueLoop(frames) == Suspend(RunLoop(fn, frames))

\* a generator that does not look at res.ok
FetchFailedIgnored ==
    /\ pc = "start"
    /\ ~ResOk(status)
    /\ reader' = "open"
    /\ pc' = "reading"
    /\ UNCHANGED <<elsewhere, session, request, pos, chunks, pend, buffer, queue, events, thrown,
                   consumerVars, failure, outcome>>

\* fetch() answered with a non-success status
FetchFailed ==
    /\ pc = "start"
    /\ ~ResOk(status)
    /\ FailBeforeStream(HttpErrorMessage(fn, status, input))
    /\ Settle
    /\ UNCHANGED <<elsewhere, session, request, decoderVars, queue, consumerVars>>

\* fetch() succeeded but the response has no body
FetchNoBody ==
    /\ pc = "start"
    /\ ResOk(status)
    /\ ~hasBody
    /\ FailBeforeStream(NoResponseBody)
    /\ Settle
    /\ UNCHANGED <<elsewhere, session, request, decoderVars, queue, consumerVars>>

\* fetch() succeeded: res.body.getReader(), new TextDecoder(), buffer = ''
FetchOk ==
    /\ pc = "start"
    /\ ResOk(status)
    /\ hasBody
    /\ reader' = "open"
    /\ pend' = <<>>
    /\ buffer' = <<>>
    /\ pc' = "reading"
    /\ UNCHANGED <<elsewhere, session, request, pos, chunks, queue, events, thrown, consumerVars, failure,
                   outcome>>

\* a decoder that forgets the text after the last delimiter
ScannedDropsTail(parts) ==
    /\ buffer' = <<>>
    /\ ContinueLoop(SubSeq(parts, 1, Len(parts) - 1))

\* const lines = buffer.split(delimiter); buffer = lines.pop() || '';
\* for (const line of lines) ...
Scanned(parts) ==
    /\ buffer' = parts[Len(parts)]
    /\ ContinueLoop(SubSeq(parts, 1, Len(parts) - 1))

\* a decoder that never takes the scanned frames out of its buffer
DecodedKeepsFrames(d) ==
    /\ pend' = d.pend
    /\ buffer' = buffer \o d.text
    /\ ContinueLoop(AllButLast(Split(buffer \o d.text, Delim(fn))))

\* buffer += decoder.decode(value, { stream: true });
Decoded(d) ==
    /\ pend' = d.pend
    /\ Scanned(Split(buffer \o d.text, Delim(fn)))

\* reader.read() resolves with the next n bytes: decode, append, split, keep
\* the text after the last delimiter, run the for loop to its first yield
ReadChunk(n) ==
    /\ pc = "reading"
    /\ pos + n <= Len(input)
    /\ Decoded(DecodeStream(SubSeq(input, pos + 1, pos + n), pend))
    /\ pos' = pos + n
    /\ chunks' = IF chunks = "none" THEN "one" ELSE "many"
    /\ Settle
    /\ UNCHANGED <<elsewhere, session, request, reader, consumerVars>>

\* an end of stream after which no generator yields anything
ReadEndSilent ==
    /\ pc = "reading"
    /\ pos = Len(input)
    /\ reader' = "closed"
    /\ pc' = "done"
    /\ Settle
    /\ UNCHANGED <<elsewhere, session, request, pos, chunks, pend, buffer, queue, events, thrown, consumerVars>>

\* an end of stream at which the text left in the buffer is decoded as one
\* more frame
ReadEndFlushes ==
    /\ pc = "reading"
    /\ pos = Len(input)
    /\ reader' = "closed"
    /\ IF fn \in LineFns
       THEN pc' = "done" /\ events' = events \o LoopEvents(fn, <<buffer>>)
       ELSE pc' = "yieldFinal"
            /\ events' = events \o LoopEvents(fn, <<buffer>>) \o <<DoneEvent>>
    /\ Settle
    /\ UNCHANGED <<elsewhere, session, request, pos, chunks, pend, buffer, queue, thrown, consumerVars>>

\* reader.read() resolves with done: the loop is left; the line-grammar
\* generators end, sendCharacterMessageStream yields { type: 'done' }
ReadEnd ==
    /\ pc = "reading"
    /\ pos = Len(input)
    /\ reader' = "closed"
    /\ IF fn \in LineFns
       THEN pc' = "done" /\ UNCHANGED events
       ELSE pc' = "yieldFinal" /\ events' = Append(events, DoneEvent)
    /\ Settle
    /\ UNCHANGED <<elsewhere, session, request, pos, chunks, pend, buffer, queue, thrown, consumerVars>>

\* a generator that catches a rejected read() and closes with done
ReadErrorCaught ==
    /\ pc = "reading"
    /\ reader' = "errored"
    /\ pc' = "yieldFinal"
    /\ events' = Append(events, DoneEvent)
    /\ Settle
    /\ UNCHANGED <<elsewhere, session, request, pos, chunks, pend, buffer, queue, thrown, consumerVars>>

\* reader.read() rejects: the exception leaves the generator
ReadError ==
    /\ pc = "reading"
    /\ reader' = "errored"
    /\ ThrowError(ReadFailure)
    /\ Settle
    /\ UNCHANGED <<elsewhere, session, request, pos, chunks, pend, buffer, queue, consumerVars>>

AtYield == pc \in {"yieldFrame", "yieldError", "yieldFinal"}

\* the consumer asks for the next event: the generator resumes after its yield
Resume ==
    /\ IF pc = "yieldFrame" THEN ContinueLoop(queue)
       ELSE pc' = "done" /\ UNCHANGED <<queue, events, thrown>>
    /\ UNCHANGED <<elsewhere, session, request, decoderVars>>

\* the consumer leaves its loop: the generator's return() ends it at the
\* yield; the generators have no try/finally, so nothing else runs
Return ==
    /\ pc' = "returned"
    /\ UNCHANGED <<elsewhere, session, request, decoderVars, queue, events, thrown>>

(***************************************************************************)
(* The consumers.                                                          *)
(***************************************************************************)

LastEvent == events[Len(events)]

\* a for-await loop whose body goes on to the next event
ForAwaitNext ==
    /\ AtYield
    /\ consumer = "forAwait"
    /\ Resume
    /\ Settle
    /\ UNCHANGED consumerVars

\* a for-await loop whose body breaks
ForAwaitBreak ==
    /\ AtYield
    /\ consumer = "forAwait"
    /\ Return
    /\ outcome' = "broke"
    /\ UNCHANGED <<consumerVars, failure>>

\* String(v), as `fullText += event.text` and new Error(event.error) apply
\* it (a number is rendered by its lexeme)
RECURSIVE ToStr(_)
RECURSIVE JoinStr(_)
JoinStr(xs) ==
    IF xs = <<>> THEN <<>>
    ELSE (IF Head(xs).k \in {"null", "undefined"} THEN <<>> ELSE ToStr(Head(xs)))
         \o (IF Len(xs) > 1 THEN <<",">> \o JoinStr(Tail(xs)) ELSE <<>>)

ToStr(v) ==
    CASE v.k \in {"str", "num"} -> v.s
      [] v.k = "undefined" -> <<"u", "n", "d", "e", "f", "i", "n", "e", "d">>
      [] v.k = "null" -> <<"n", "u", "l", "l">>
      [] v.k = "true" -> <<"t", "r", "u", "e">>
      [] v.k = "false" -> <<"f", "a", "l", "s", "e">>
      [] v.k = "arr" -> JoinStr(v.xs)
      \* "[object Object]"
      [] OTHER ->
           <<"[", "o", "b", "j", "e", "c", "t", " ", "O", "b", "j", "e", "c", "t", "]">>

\* a consumer that keeps only the newest chunk
OnChunkEventOverwrites ==
    /\ AtYield
    /\ consumer = "sendCharacterMessage"
    /\ LastEvent.type = "chunk"
    /\ fullText' = ToStr(LastEvent.text)
    /\ onChunk' = Append(onChunk, LastEvent.text)
    /\ Resume
    /\ Settle
    /\ UNCHANGED onThinking

\* sendCharacterMessage, case 'chunk'
OnChunkEvent ==
    /\ AtYield
    /\ consumer = "sendCharacterMessage"
    /\ LastEvent.type = "chunk"
    /\ fullText' = fullText \o ToStr(LastEvent.text)
    /\ onChunk' = Append(onChunk, LastEvent.text)
    /\ Resume
    /\ Settle
    /\ UNCHANGED onThinking

\* sendCharacterMessage, case 'thinking'
OnThinkingEvent ==
    /\ AtYield
    /\ consumer = "sendCharacterMessage"
    /\ LastEvent.type = "thinking"
    /\ onThinking' = onThinking + 1
    /\ Resume
    /\ Settle
    /\ UNCHANGED <<fullText, onChunk>>

\* a consumer that has no case for 'error'
OnErrorEventIgnored ==
    /\ AtYield
    /\ consumer = "sendCharacterMessage"
    /\ LastEvent.type = "error"
    /\ Resume
    /\ Settle
    /\ UNCHANGED consumerVars

\* sendCharacterMessage, case 'error': throw new Error(event.error) leaves
\* the for-await loop, which ends the generator with return()
OnErrorEvent ==
    /\ AtYield
    /\ consumer = "sendCharacterMessage"
    /\ LastEvent.type = "error"
    /\ Return
    /\ outcome' = "rejected"
    /\ failure' = ToStr(LastEvent.error)
    /\ UNCHANGED consumerVars

\* sendCharacterMessage, the event types the switch has no case for
OnOtherEvent ==
    /\ AtYield
    /\ consumer = "sendCharacterMessage"
    /\ LastEvent.type \notin {"chunk", "thinking", "error"}
    /\ Resume
    /\ Settle
    /\ UNCHANGED consumerVars

\* the sizes of the chunk the next read() may deliver
ChunkSizes == {n \in (1..MaxChunk) \cup {Len(input) - pos} : n >= 1}

Next ==
    \/ FetchFailed
    \/ FetchNoBody
    \/ FetchOk
    \/ \E n \in ChunkSizes : ReadChunk(n)
    \/ ReadEnd
    \/ ReadError
    \/ ForAwaitNext
    \/ ForAwaitBreak
    \/ OnChunkEvent
    \/ OnThinkingEvent
    \/ OnErrorEvent
    \/ OnOtherEvent

Spec == Init /\ [][Next]_vars

(***************************************************************************)
(* eliza-auth (token storage, signOut) and getBalance.                     *)
(***************************************************************************)

\* the number of fetch() calls, and of signOut calls, in one behaviour
MaxCalls == 3

\* the values of NEXT_PUBLIC_ELIZA_APP_ID || ''
AppIds == {"", "app1"}

\* what localStorage can hold when the page is loaded: handleCallback and
\* refreshSession store non-empty tokens only, getUser caches a user only
\* while a token is stored, clearToken removes both items
StoredItems ==
    {NoItems,
     [eliza_app_token |-> "t1", eliza_app_user |-> Null],
     [eliza_app_token |-> "t1", eliza_app_user |-> "u1"]}

\* how a fetch() can settle: a response with a status, or a rejection
Responses == {"200", "402", "500", "failed"}

\* a JavaScript string (or null) is truthy when it is a non-empty string
Filled(v) == v # Null /\ v # ""

\* all variables of the generators and their consumers
stream ==
    <<request, decoderVars, queue, events, pc, thrown, consumerVars, failure, outcome>>

getToken == IF hasWindow THEN localStorage.eliza_app_token ELSE Null

isAuthenticated == Filled(getToken)

clearToken == localStorage' = IF hasWindow THEN NoItems ELSE localStorage

\* if (typeof window !== 'undefined') window.location.reload()
Reload == reloads' = IF hasWindow THEN reloads + 1 ELSE reloads

\* the headers of getAuthHeaders(): absent headers are Null
getAuthHeaders ==
    [authorization |-> IF Filled(getToken) THEN getToken ELSE Null,
     xAppId |-> IF Filled(appId) THEN appId ELSE Null]

LogoutPath == "/api/v1/app-auth/logout"

AppBalancePath == "/api/v1/app-credits/balance"

OrgBalancePath == "/api/v1/credits/balance"

\* fetch(`${apiBase}/api/v1/app-auth/logout`, { method: 'POST', headers })
LogoutRequest ==
    [path |-> LogoutPath, app_id |-> Null, method |-> "POST",
     authorization |-> getToken, xAppId |-> appId]

\* elizaFetch(path, {}): the headers of getAuthHeaders(), X-App-Id when an
\* app id is configured
ElizaFetchRequest(path, query) ==
    [path |-> path, app_id |-> query, method |-> "GET",
     authorization |-> getAuthHeaders.authorization, xAppId |-> getAuthHeaders.xAppId]

\* signOut up to its await: without a token it runs to its end at once
signOut ==
    /\ signOutPc = "idle"
    /\ signOuts < MaxCalls
    /\ Len(requests) < MaxCalls
    /\ IF Filled(getToken)
       THEN /\ requests' = Append(requests, LogoutRequest)
            /\ signOutPc' = "logout"
            /\ UNCHANGED <<localStorage, signOuts, reloads>>
       ELSE /\ clearToken
            /\ Reload
            /\ signOuts' = signOuts + 1
            /\ UNCHANGED <<requests, signOutPc>>
    /\ UNCHANGED <<elsewhere, stream, hasWindow, appId, settled, balancePc, balance>>

\* a signOut whose try block has no catch: a rejected fetch() ends it
LogoutSettledUncaught(response) ==
    /\ signOutPc = "logout"
    /\ settled' = Append(settled, [path |-> LogoutPath, response |-> response])
    /\ IF response = "failed"
       THEN UNCHANGED <<localStorage, reloads>>
       ELSE clearToken /\ Reload
    /\ signOutPc' = "idle"
    /\ signOuts' = signOuts + 1
    /\ UNCHANGED <<elsewhere, stream, hasWindow, appId, requests, balancePc, balance>>

\* the logout fetch() settles: whatever the response, and also when fetch()
\* rejects (catch { }), clearToken() and the reload follow
LogoutSettled(response) ==
    /\ signOutPc = "logout"
    /\ settled' = Append(settled, [path |-> LogoutPath, response |-> response])
    /\ clearToken
    /\ Reload
    /\ signOutPc' = "idle"
    /\ signOuts' = signOuts + 1
    /\ UNCHANGED <<elsewhere, stream, hasWindow, appId, requests, balancePc, balance>>

\* a getBalance that always asks for the organisation's balance
getBalanceOrgOnly ==
    /\ balancePc = "idle"
    /\ Len(requests) < MaxCalls
    /\ requests' = Append(requests, ElizaFetchRequest(OrgBalancePath, Null))
    /\ balancePc' = "fetch"
    /\ UNCHANGED <<elsewhere, stream, hasWindow, appId, localStorage, settled, signOutPc, signOuts,
                   reloads, balance>>

\* getBalance up to the await of elizaFetch
getBalance ==
    /\ balancePc = "idle"
    /\ Len(requests) < MaxCalls
    /\ requests' = Append(requests,
                          IF isAuthenticated /\ Filled(appId)
                          THEN ElizaFetchRequest(AppBalancePath, appId)
                          ELSE ElizaFetchRequest(OrgBalancePath, Null))
    /\ balancePc' = "fetch"
    /\ UNCHANGED <<elsewhere, stream, hasWindow, appId, localStorage, settled, signOutPc, signOuts,
                   reloads, balance>>

\* elizaFetch after its await: res.json(), or the Error of a failed response
ElizaFetchResult(response) ==
    CASE response = "200" -> "BalanceResult"
      [] response = "402" -> "INSUFFICIENT_CREDITS"
      [] response = "failed" -> "fetch rejected"
      [] OTHER -> "Eliza API Error"

\* the balance fetch() settles
BalanceSettled(response) ==
    /\ balancePc = "fetch"
    /\ settled' = Append(settled, [path |-> requests[Len(requests)].path,
                                   response |-> response])
    /\ balance' = ElizaFetchResult(response)
    /\ balancePc' = "idle"
    /\ UNCHANGED <<elsewhere, stream, hasWindow, appId, localStorage, requests, signOutPc, signOuts,
                   reloads>>

AuthInit ==
    /\ fn = "chatStream"
    /\ consumer = "forAwait"
    /\ status = 200
    /\ hasBody = TRUE
    /\ input = <<>>
    /\ NotStarted
    /\ hasWindow \in BOOLEAN
    /\ appId \in AppIds
    /\ localStorage \in (IF hasWindow THEN StoredItems ELSE {NoItems})
    /\ NoCalls
    /\ generators = <<>>
    /\ NoAccount
    /\ NoHooks

AuthNext ==
    \/ signOut
    \/ \E response \in Responses : LogoutSettled(response)
    \/ getBalance
    \/ \E response \in Responses : BalanceSettled(response)

AuthSpec == AuthInit /\ [][AuthNext]_vars

(***************************************************************************)
(* Generators side by side.  reader, decoder and buffer are locals of the  *)
(* generator call, so every call has its own; each is consumed by a        *)
(* for-await loop that asks for every event.                               *)
(***************************************************************************)

GeneratorIds == {1, 2}

\* the calls made side by side: the generator function and the body of the
\* (successful) response it reads
\* 'data: 1\ndata: "\xe9"\n'
LinePair ==
    <<"d", "a", "t", "a", ":", " ", "1", NL,
      "d", "a", "t", "a", ":", " ", "\"", "xC3", "xA9", "\"", NL>>

\* 'data: "\xe9"\n\n'
BlockQuoted ==
    <<"d", "a", "t", "a", ":", " ", "\"", "xC3", "xA9", "\"", NL, NL>>

Calls ==
    {[fn |-> "chatStream", input |-> LinePair],
     [fn |-> "sendCharacterMessageStream", input |-> BlockQuoted]}

\* const reader = res.body?.getReader(); const decoder = new TextDecoder();
\* let buffer = '';
Started(call) ==
    [fn |-> call.fn, input |-> call.input, pos |-> 0, value |-> <<>>, pend |-> <<>>,
     buffer |-> <<>>, events |-> <<>>, pc |-> "reading"]

\* how the for loop over frames ends when every event is asked for: "end",
\* or "throw" when an exception leaves it
RECURSIVE LoopEnd(_, _)
RECURSIVE LoopEndAfter(_, _)
LoopEndAfter(f, r) == IF r.kind = "yield" THEN LoopEnd(f, r.rest) ELSE r.kind

LoopEnd(f, frames) == LoopEndAfter(f, RunLoop(f, frames))

\* const lines = buffer.split(delimiter); buffer = lines.pop() || '';
\* for (const line of lines) ...
GenScanned(g, value, d, parts) ==
    [g EXCEPT !.pos = @ + Len(value),
              !.value = value,
              !.pend = d.pend,
              !.buffer = parts[Len(parts)],
              !.events = @ \o LoopEvents(g.fn, AllButLast(parts)),
              !.pc = IF LoopEnd(g.fn, AllButLast(parts)) = "throw" THEN "threw" ELSE "reading"]

\* a generator that makes a new TextDecoder for every chunk
GenDecodedAfresh(g, value) ==
    GenScanned(g, value, [text |-> Flushed(DecodeStream(value, <<>>)), pend |-> <<>>],
               Split(g.buffer \o Flushed(DecodeStream(value, <<>>)), Delim(g.fn)))

\* buffer += decoder.decode(value, { stream: true });
GenDecoded(g, value) ==
    GenScanned(g, value, DecodeStream(value, g.pend),
               Split(g.buffer \o DecodeStream(value, g.pend).text, Delim(g.fn)))

\* generators whose buffer is one variable of the module
ReadByShared(i, value) ==
    generators' =
        [j \in GeneratorIds |->
           IF j = i THEN GenDecoded(generators[i], value)
           ELSE [generators[j] EXCEPT !.buffer = GenDecoded(generators[i], value).buffer]]

\* the read loop body of generator i
ReadBy(i, value) == generators' = [generators EXCEPT ![i] = GenDecoded(@, value)]

\* the sizes of the chunk the next read() of a generator may deliver
GenChunkSizes(g) == {n \in (1..MaxChunk) \cup {Len(g.input) - g.pos} : n >= 1}

\* reader.read() of generator i resolves with the next n bytes
GeneratorRead(i, n) ==
    /\ generators[i].pc = "reading"
    /\ generators[i].pos + n <= Len(generators[i].input)
    /\ ReadBy(i, SubSeq(generators[i].input, generators[i].pos + 1, generators[i].pos + n))
    /\ UNCHANGED <<stream, session, account, hooks>>

\* reader.read() of generator i resolves with done
GeneratorEnd(i) ==
    /\ generators[i].pc = "reading"
    /\ generators[i].pos = Len(generators[i].input)
    /\ generators' =
         [generators EXCEPT ![i].pc = "done",
                            ![i].events = IF generators[i].fn \in BlockFns
                                          THEN Append(@, DoneEvent) ELSE @]
    /\ UNCHANGED <<stream, session, account, hooks>>

\* reader.read() of generator i rejects
GeneratorReadError(i) ==
    /\ generators[i].pc = "reading"
    /\ generators' = [generators EXCEPT ![i].pc = "threw"]
    /\ UNCHANGED <<stream, session, account, hooks>>

SideBySideInit ==
    /\ fn = "chatStream"
    /\ consumer = "forAwait"
    /\ status = 200
    /\ hasBody = TRUE
    /\ input = <<>>
    /\ NotStarted
    /\ hasWindow = TRUE
    /\ appId = ""
    /\ localStorage = NoItems
    /\ NoCalls
    /\ generators \in [GeneratorIds -> {Started(call) : call \in Calls}]
    /\ NoAccount
    /\ NoHooks

SideBySideNext ==
    \/ \E i \in GeneratorIds : \E n \in GenChunkSizes(generators[i]) : GeneratorRead(i, n)
    \/ \E i \in GeneratorIds : GeneratorEnd(i)
    \/ \E i \in GeneratorIds : GeneratorReadError(i)

SideBySideSpec == SideBySideInit /\ [][SideBySideNext]_vars

(***************************************************************************)
(* eliza-auth: getUser, refreshSession, handleCallback; useElizaAuth.      *)
(***************************************************************************)

\* one minute of Date.now()
Minute == 60 * 1000

USER_CACHE_TTL == 5 * 60 * 1000

\* time passes in steps shorter than the lifetime of the cache
Step == 3 * Minute

\* the number of steps of time in one behaviour
MaxSteps == 2

\* the number of fetch() calls of getUser and refreshSession in one behaviour
MaxRequests == 2

\* the tokens the server issues, and the user its session endpoint reports
\* for each
Tokens == {"t1", "t2"}

UserOf(token) == IF token = "t1" THEN "u1" ELSE "u2"

\* how the fetch() of getUser and refreshSession can settle: "200" carries
\* data.user (data.token), "200 empty" does not; or a rejection
AccountResponses == {"200", "200 empty", "401", "500", "failed"}

\* the query string of the callback page
CallbackParams ==
    {[token |-> t, error |-> e] : t \in Tokens \cup {Null}, e \in {Null, "access_denied"}}

SessionPath == "/api/v1/app-auth/session"

RefreshPath == "/api/v1/app-auth/refresh"

\* fetch(`${apiBase}/api/v1/app-auth/session`, { headers })
SessionRequest(token) ==
    [path |-> SessionPath, app_id |-> Null, method |-> "GET",
     authorization |-> token, xAppId |-> appId]

\* fetch(`${apiBase}/api/v1/app-auth/refresh`, { method: 'POST', headers })
RefreshRequest(token) ==
    [path |-> RefreshPath, app_id |-> Null, method |-> "POST",
     authorization |-> token, xAppId |-> appId]

\* localStorage after setToken(token)
setToken(stored, token) ==
    IF hasWindow THEN [stored EXCEPT !.eliza_app_token = token] ELSE stored

\* localStorage after clearToken()
Cleared(stored) == IF hasWindow THEN NoItems ELSE stored

\* Date.now() - parsed.cachedAt < USER_CACHE_TTL
CacheValid(stored) ==
    hasWindow /\ stored.eliza_app_user # Null /\ clock - cachedAt < USER_CACHE_TTL

\* the result of getCachedUser()
getCachedUser(stored) == IF CacheValid(stored) THEN stored.eliza_app_user ELSE Null

\* localStorage after getCachedUser(): an item that is no longer valid is
\* removed
AfterGetCachedUser(stored) ==
    IF hasWindow /\ ~CacheValid(stored) THEN [stored EXCEPT !.eliza_app_user = Null]
    ELSE stored

\* a render of the component that uses the hook, after its state changed to
\* h: hasToken is computed again, and the effect on [fetchUser] is due when
\* hasToken (the dependency of fetchUser) has changed
Render(h, stored) ==
    IF <<h.user, h.loading, h.error>> = <<hook.user, hook.loading, hook.error>> THEN h
    ELSE [h EXCEPT !.hasToken = hasWindow /\ Filled(stored.eliza_app_token),
                   !.fetchDue = @ \/ hook.hasToken # (hasWindow /\ Filled(stored.eliza_app_token))]

\* getUser() returns result to its caller: fetchUser of the hook (setUser,
\* setError(null), setLoading(false)) or handleCallback (which returns it)
Returned(caller, result, h, cb) ==
    /\ getUserCall' = [pc |-> "idle", caller |-> caller, result |-> result]
    /\ hook' = IF caller = "hook"
               THEN Render([h EXCEPT !.user = result, !.error = Null, !.loading = FALSE],
                           localStorage')
               ELSE h
    /\ callback' = IF caller = "callback" THEN [cb EXCEPT !.pc = "done", !.result = result]
                   ELSE cb

\* getUser() up to its await, called over the storage stored
getUser(caller, stored, h, cb) ==
    IF ~(hasWindow /\ Filled(stored.eliza_app_token))
    THEN /\ localStorage' = stored
         /\ Returned(caller, Null, h, cb)
         /\ UNCHANGED requests
    ELSE IF getCachedUser(stored) # Null
    THEN /\ localStorage' = stored
         /\ Returned(caller, getCachedUser(stored), h, cb)
         /\ UNCHANGED requests
    ELSE /\ localStorage' = AfterGetCachedUser(stored)
         /\ requests' = Append(requests, SessionRequest(stored.eliza_app_token))
         /\ getUserCall' = [pc |-> "fetch", caller |-> caller, result |-> Null]
         /\ hook' = h
         /\ callback' = IF caller = "callback" THEN [cb EXCEPT !.pc = "getUser"] ELSE cb

\* fetchUser() of the hook, with the hasToken of the render that made it
fetchUser(h) ==
    IF ~h.hasToken
    THEN /\ hook' = Render([h EXCEPT !.user = Null, !.loading = FALSE], localStorage)
         /\ UNCHANGED <<localStorage, requests, getUserCall, callback>>
    ELSE getUser("hook", localStorage, h, callback)

\* useEffect(() => { fetchUser(); }, [fetchUser])
FetchUserEffect ==
    /\ hook.fetchDue
    /\ getUserCall.pc = "idle"
    /\ Len(requests) < MaxRequests
    /\ fetchUser([hook EXCEPT !.fetchDue = FALSE])
    /\ UNCHANGED <<stream, generators, hooks, hasWindow, appId, settled, signOutPc, signOuts, reloads,
                   balancePc, balance, clock, cachedAt, refreshCall>>

\* refresh() of the hook: setLoading(true); await fetchUser()
HookRefresh ==
    /\ getUserCall.pc = "idle"
    /\ Len(requests) < MaxRequests
    /\ fetchUser([hook EXCEPT !.loading = TRUE])
    /\ UNCHANGED <<stream, generators, hooks, hasWindow, appId, settled, signOutPc, signOuts, reloads,
                   balancePc, balance, clock, cachedAt, refreshCall>>

\* the user getUser returns after its fetch() settled
SessionResult(response, token) == IF response = "200" THEN UserOf(token) ELSE Null

\* a getUser that clears the session on every failed response
SessionSettledClearsOnFailure(response) ==
    /\ getUserCall.pc = "fetch"
    /\ settled' = Append(settled, [path |-> SessionPath, response |-> response])
    /\ localStorage' =
         IF response \in {"401", "500", "failed"} THEN Cleared(localStorage)
         ELSE IF response = "200" /\ hasWindow
         THEN [localStorage EXCEPT !.eliza_app_user = UserOf(requests[Len(requests)].authorization)]
         ELSE localStorage
    /\ cachedAt' = IF response = "200" /\ hasWindow THEN clock ELSE cachedAt
    /\ Returned(getUserCall.caller,
                SessionResult(response, requests[Len(requests)].authorization), hook, callback)
    /\ UNCHANGED <<stream, generators, hooks, hasWindow, appId, requests, signOutPc, signOuts, reloads,
                   balancePc, balance, clock, refreshCall>>

\* getUser after its await: clearToken() on 401, setCachedUser(data.user)
\* on success; catch { return null }
SessionSettled(response) ==
    /\ getUserCall.pc = "fetch"
    /\ settled' = Append(settled, [path |-> SessionPath, response |-> response])
    /\ localStorage' =
         IF response = "401" THEN Cleared(localStorage)
         ELSE IF response = "200" /\ hasWindow
         THEN [localStorage EXCEPT !.eliza_app_user = UserOf(requests[Len(requests)].authorization)]
         ELSE localStorage
    /\ cachedAt' = IF response = "200" /\ hasWindow THEN clock ELSE cachedAt
    /\ Returned(getUserCall.caller,
                SessionResult(response, requests[Len(requests)].authorization), hook, callback)
    /\ UNCHANGED <<stream, generators, hooks, hasWindow, appId, requests, signOutPc, signOuts, reloads,
                   balancePc, balance, clock, refreshCall>>

\* the interval of the hook fires (it is set while hasToken):
\* refreshSession() up to its await
RefreshInterval ==
    /\ hook.hasToken
    /\ refreshCall.pc = "idle"
    /\ Len(requests) < MaxRequests
    /\ IF Filled(getToken)
       THEN /\ requests' = Append(requests, RefreshRequest(getToken))
            /\ refreshCall' = [pc |-> "fetch", result |-> FALSE]
       ELSE /\ refreshCall' = [pc |-> "idle", result |-> FALSE]
            /\ UNCHANGED requests
    /\ UNCHANGED <<stream, generators, hooks, hasWindow, appId, localStorage, settled, signOutPc,
                   signOuts, reloads, balancePc, balance, clock, cachedAt, getUserCall, callback,
                   hook>>

\* localStorage after refreshSession's fetch() settled
Refreshed(response, token) ==
    IF response = "401" THEN Cleared(localStorage)
    ELSE IF response = "200" THEN setToken(localStorage, token)
    ELSE localStorage

\* refreshSession after its await; on success the interval callback goes on
\* with the fetchUser() of the render that set the interval (hasToken was
\* true then)
RefreshSettled(response) ==
    /\ refreshCall.pc = "fetch"
    /\ response \in {"200", "200 empty"} => getUserCall.pc = "idle"
    /\ settled' = Append(settled, [path |-> RefreshPath, response |-> response])
    /\ refreshCall' = [pc |-> "idle", result |-> response \in {"200", "200 empty"}]
    /\ IF response \in {"200", "200 empty"}
       THEN getUser("hook", Refreshed(response, requests[Len(requests)].authorization),
                    hook, callback)
       ELSE /\ localStorage' = Refreshed(response, requests[Len(requests)].authorization)
            /\ UNCHANGED <<requests, getUserCall, callback, hook>>
    /\ UNCHANGED <<stream, generators, hooks, hasWindow, appId, signOutPc, signOuts, reloads, balancePc,
                   balance, clock, cachedAt>>

\* handleCallback() on a page whose query string is params
handleCallback(params) ==
    /\ callback.pc = "idle"
    /\ getUserCall.pc = "idle"
    /\ Len(requests) < MaxRequests
    /\ IF ~hasWindow
       THEN /\ callback' = [pc |-> "done", token |-> Null, result |-> Null]
            /\ UNCHANGED <<localStorage, requests, getUserCall, hook>>
       ELSE IF params.error # Null \/ params.token = Null
       THEN /\ callback' = [pc |-> "threw", token |-> params.token, result |-> Null]
            /\ UNCHANGED <<localStorage, requests, getUserCall, hook>>
       ELSE getUser("callback", setToken(localStorage, params.token), hook,
                    [callback EXCEPT !.token = params.token])
    /\ UNCHANGED <<stream, generators, hooks, hasWindow, appId, settled, signOutPc, signOuts, reloads,
                   balancePc, balance, clock, cachedAt, refreshCall>>

\* time passes
Elapse ==
    /\ clock < MaxSteps * Step
    /\ clock' = clock + Step
    /\ UNCHANGED <<stream, session, generators, hooks, cachedAt, getUserCall, refreshCall, callback,
                   hook>>

\* the page is loaded with what an earlier visit left in localStorage; the
\* component that uses the hook has rendered once
AccountInit ==
    /\ fn = "chatStream"
    /\ consumer = "forAwait"
    /\ status = 200
    /\ hasBody = TRUE
    /\ input = <<>>
    /\ NotStarted
    /\ hasWindow \in BOOLEAN
    /\ appId = "app1"
    /\ localStorage \in (IF hasWindow THEN StoredItems ELSE {NoItems})
    /\ NoCalls
    /\ generators = <<>>
    /\ clock = 0
    /\ cachedAt = 0
    /\ getUserCall = [pc |-> "idle", caller |-> "hook", result |-> Null]
    /\ refreshCall = [pc |-> "idle", result |-> FALSE]
    /\ callback = [pc |-> "idle", token |-> Null, result |-> Null]
    /\ hook = [user |-> Null, loading |-> TRUE, error |-> Null,
               hasToken |-> hasWindow /\ Filled(localStorage.eliza_app_token),
               fetchDue |-> TRUE]
    /\ NoHooks

AccountNext ==
    \/ FetchUserEffect
    \/ HookRefresh
    \/ \E response \in AccountResponses : SessionSettled(response)
    \/ RefreshInterval
    \/ \E response \in AccountResponses : RefreshSettled(response)
    \/ \E params \in CallbackParams : handleCallback(params)
    \/ Elapse

AccountSpec == AccountInit /\ [][AccountNext]_vars

(***************************************************************************)
(* The hooks of use-eliza.ts and ChatInterface.                            *)
(***************************************************************************)

\* the number of send calls (of handleSend calls) in one behaviour
MaxSends == 2

\* the number of createRoom requests in one behaviour
MaxCreates == 3

\* the number of chunks with text in one streamed answer
MaxDeltas == 2

Components == {"Chat", "AgentChat", "CharacterChat", "ChatInterface"}

\* useChat.send up to its await: setLoading(true); setError(null)
ChatSend ==
    /\ component = "Chat"
    /\ chat.started < MaxSends
    /\ chat' = [chat EXCEPT !.loading = TRUE, !.error = Null, !.started = @ + 1,
                            !.pending = @ + 1]
    /\ UNCHANGED <<stream, session, generators, account, component, agentChat, characterChat,
                   chatInterface>>

\* useChat.send after its await: chat() resolved (ok), or it threw and the
\* catch sets the error; finally setLoading(false)
ChatSettled(ok) ==
    /\ component = "Chat"
    /\ chat.pending > 0
    /\ chat' = [chat EXCEPT !.loading = FALSE,
                            !.error = IF ok THEN @ ELSE "Eliza API Error",
                            !.pending = @ - 1]
    /\ UNCHANGED <<stream, session, generators, account, component, agentChat, characterChat,
                   chatInterface>>

\* the messages of useAgentChat: content stands for the text of the send
\* call with that number, or for the answer to it
UserMessage(call) == [role |-> "user", content |-> call]

AssistantMessage(call) == [role |-> "assistant", content |-> call]

\* useAgentChat.send up to its await: setLoading(true); setError(null);
\* setMessages(prev => [...prev, { role: 'user', content: message }])
AgentSend ==
    /\ component = "AgentChat"
    /\ Len(agentChat.calls) < MaxSends
    /\ agentChat' =
         [agentChat EXCEPT !.loading = TRUE, !.error = Null,
                           !.messages = Append(@, UserMessage(Len(agentChat.calls) + 1)),
                           !.calls = Append(@, "pending")]
    /\ UNCHANGED <<stream, session, generators, account, component, chat, characterChat,
                   chatInterface>>

\* useAgentChat.send after its await: the answer is appended, or the catch
\* sets the error and drops the last message (prev.slice(0, -1)); finally
\* setLoading(false)
AgentSettled(call, ok) ==
    /\ component = "AgentChat"
    /\ call \in 1..Len(agentChat.calls)
    /\ agentChat.calls[call] = "pending"
    /\ agentChat' =
         [agentChat EXCEPT !.loading = FALSE,
                           !.error = IF ok THEN @ ELSE "Chat failed",
                           !.messages = IF ok THEN Append(@, AssistantMessage(call))
                                        ELSE SubSeq(@, 1, Len(@) - 1),
                           !.calls[call] = IF ok THEN "ok" ELSE "failed"]
    /\ UNCHANGED <<stream, session, generators, account, component, chat, characterChat,
                   chatInterface>>

\* the characterId the component passes to useCharacterChat (Null: none)
CharacterIds == {Null, "c1"}

\* the number of reset() calls in one behaviour
MaxResets == 1

\* useEffect(() => { if (characterId && !room && !roomLoading)
\* createRoom(characterId); }, [characterId, room, roomLoading, createRoom]):
\* the effect runs after a render in which one of its dependencies changed;
\* createRoom sets roomLoading, which is such a change
CharacterEffect ==
    /\ component = "CharacterChat"
    /\ characterChat.effectDue
    /\ characterChat.requests < MaxCreates
    /\ characterChat' =
         IF /\ Filled(characterChat.characterId)
            /\ characterChat.room = Null
            /\ ~characterChat.roomLoading
         THEN [characterChat EXCEPT !.roomLoading = TRUE, !.error = Null,
                                    !.requests = @ + 1, !.effectDue = TRUE]
         ELSE [characterChat EXCEPT !.effectDue = FALSE]
    /\ UNCHANGED <<stream, session, generators, account, component, chat, agentChat,
                   chatInterface>>

\* createRoom after its await: setRoom(newRoom), or the catch sets the
\* error; finally setRoomLoading(false), a change of roomLoading
CreateRoomSettled(ok) ==
    /\ component = "CharacterChat"
    /\ characterChat.roomLoading
    /\ characterChat' =
         [characterChat EXCEPT !.roomLoading = FALSE,
                               !.room = IF ok THEN "room" ELSE @,
                               !.error = IF ok THEN @ ELSE "Failed to create room",
                               !.effectDue = TRUE]
    /\ UNCHANGED <<stream, session, generators, account, component, chat, agentChat,
                   chatInterface>>

\* reset(): setMessages([]); setRoom(null); setError(null)
CharacterReset ==
    /\ component = "CharacterChat"
    /\ characterChat.resets < MaxResets
    /\ characterChat' =
         [characterChat EXCEPT !.room = Null, !.error = Null, !.resets = @ + 1,
                               !.effectDue = @ \/ characterChat.room # Null]
    /\ UNCHANGED <<stream, session, generators, account, component, chat, agentChat,
                   chatInterface>>

\* 'INSUFFICIENT_CREDITS'
InsufficientCredits ==
    <<"I", "N", "S", "U", "F", "F", "I", "C", "I", "E", "N", "T", "_", "C",
      "R", "E", "D", "I", "T", "S">>

\* 'Error: '
ErrorColon ==
    <<"E", "r", "r", "o", "r", ":", " ">>

\* "You've run out of credits. Please top up to continue."
OutOfCredits ==
    <<"Y", "o", "u", "'", "v", "e", " ", "r", "u", "n", " ", "o", "u", "t",
      " ", "o", "f", " ", "c", "r", "e", "d", "i", "t", "s", ".", " ", "P",
      "l", "e", "a", "s", "e", " ", "t", "o", "p", " ", "u", "p", " ", "t",
      "o", " ", "c", "o", "n", "t", "i", "n", "u", "e", ".">>

\* the bodies of the failed responses ChatInterface meets
FailedBodies == ErrorBodies \cup {InsufficientCredits}

\* the messages of the errors chatStream throws: a non-success response, a
\* response without body, a failed read
StreamFailures ==
    {HttpErrorMessage("chatStream", st, body) : st \in {402, 500}, body \in FailedBodies}
        \cup {NoResponseBody, ReadFailure}

\* chunk.choices?.[0]?.delta?.content of the chunks chatStream yields: a
\* text, or nothing
Deltas == {<<>>, <<"H", "i">>}

\* the longest answer: MaxDeltas chunks with text
MaxContent == MaxDeltas * 2

\* the content handleSend's catch branch writes
ErrorText(message) ==
    IF Includes(message, InsufficientCredits) THEN OutOfCredits ELSE ErrorColon \o message

\* updated[updated.length - 1].content = content
WithLastContent(messages, content) ==
    [messages EXCEPT ![Len(messages)].content = content]

\* handleSend up to the first await of its for-await loop: the user message
\* and the empty assistant message are appended; stream() starts with
\* setLoading(true); setError(null)
handleSend ==
    /\ component = "ChatInterface"
    /\ ~chatInterface.loading
    /\ chatInterface.sends < MaxSends
    /\ chatInterface' =
         [chatInterface EXCEPT !.messages = @ \o <<[role |-> "user", content |-> <<"?">>],
                                                   [role |-> "assistant", content |-> <<>>]>>,
                               !.loading = TRUE, !.error = <<>>, !.sends = @ + 1,
                               !.streaming = TRUE]
    /\ UNCHANGED <<stream, session, generators, account, component, chat, agentChat,
                   characterChat>>

\* chatStream yields a chunk, stream() hands it on (yield*) and the loop
\* body appends its delta, if it has one
StreamYields(delta) ==
    /\ component = "ChatInterface"
    /\ chatInterface.streaming
    /\ Len(chatInterface.messages[Len(chatInterface.messages)].content) + Len(delta)
         <= MaxContent
    /\ chatInterface' =
         [chatInterface EXCEPT
            !.messages = IF delta # <<>>
                         THEN WithLastContent(@, @[Len(@)].content \o delta) ELSE @]
    /\ UNCHANGED <<stream, session, generators, account, component, chat, agentChat,
                   characterChat>>

\* chatStream ends: stream() runs its finally and ends, the loop ends
StreamEnds ==
    /\ component = "ChatInterface"
    /\ chatInterface.streaming
    /\ chatInterface' = [chatInterface EXCEPT !.loading = FALSE, !.streaming = FALSE]
    /\ UNCHANGED <<stream, session, generators, account, component, chat, agentChat,
                   characterChat>>

\* chatStream throws: the catch of stream() takes the error (setError), its
\* finally runs and stream() ends without throwing, so the for-await loop of
\* handleSend ends as after the last chunk
StreamThrows(message) ==
    /\ component = "ChatInterface"
    /\ chatInterface.streaming
    /\ chatInterface' = [chatInterface EXCEPT !.loading = FALSE, !.error = <<message>>,
                                              !.streaming = FALSE]
    /\ UNCHANGED <<stream, session, generators, account, component, chat, agentChat,
                   characterChat>>

HooksInit ==
    /\ fn = "chatStream"
    /\ consumer = "forAwait"
    /\ status = 200
    /\ hasBody = TRUE
    /\ input = <<>>
    /\ NotStarted
    /\ hasWindow = TRUE
    /\ appId = ""
    /\ localStorage = NoItems
    /\ NoCalls
    /\ generators = <<>>
    /\ NoAccount
    /\ component \in Components
    /\ Unused
    /\ characterChat \in {CharacterChatOf(id) : id \in CharacterIds}

HooksNext ==
    \/ ChatSend
    \/ \E ok \in BOOLEAN : ChatSettled(ok)
    \/ AgentSend
    \/ \E call \in 1..MaxSends, ok \in BOOLEAN : AgentSettled(call, ok)
    \/ CharacterEffect
    \/ \E ok \in BOOLEAN : CreateRoomSettled(ok)
    \/ CharacterReset
    \/ handleSend
    \/ \E delta \in Deltas : StreamYields(delta)
    \/ StreamEnds
    \/ \E message \in StreamFailures : StreamThrows(message)

HooksSpec == HooksInit /\ [][HooksNext]_vars

(***************************************************************************)
(* Reference: the stream seen as a whole.                                  *)
(***************************************************************************)

\* the complete frames of a body: the text before each delimiter
Frames(f, bytes) == AllButLast(Split(DecodeStream(bytes, <<>>).text, Delim(f)))

\* the event sendCharacterMessageStream yields after its read loop
Closing(f) == IF f \in BlockFns THEN <<DoneEvent>> ELSE <<>>

\* the events of a run in which the whole body arrives in one chunk
OneChunkEvents(f, bytes) == LoopEvents(f, Frames(f, bytes)) \o Closing(f)

IsPrefix(a, b) == Len(a) <= Len(b) /\ SubSeq(b, 1, Len(a)) = a

\* the generator is suspended at a yield of its read loop or after it: the
\* events yielded change only in steps that end in such a state
EventsChanged == reader # "none" /\ AtYield

\* the source was read to its end and the generator returned normally
Exhausted == pc = "done" /\ reader = "closed"

\* the events yielded from inside the read loop (the closing done of
\* sendCharacterMessageStream left out)
FrameEvents ==
    IF fn \in BlockFns /\ reader = "closed" /\ pc \in {"yieldFinal", "done", "returned"}
    THEN AllButLast(events)
    ELSE events

\* bodies that are exactly one valid frame
SingleFrames(f) ==
    IF f \in LineFns THEN {LineText}
    ELSE {BlockChunk, BlockThinking, BlockError, BlockDone, BlockSplitData}

(***************************************************************************)
(* C1.  Chunking invariance: however the body is cut into chunks, the      *)
(* events yielded so far are a prefix of the events of the one-chunk run,  *)
(* and a run that reads the body to its end yields exactly the events of   *)
(* the one-chunk run; a body that is one valid frame, delivered in two or  *)
(* more chunks, yields exactly one event from its frame.                   *)
(***************************************************************************)
C1_ChunkingInvariance ==
    /\ EventsChanged => IsPrefix(events, OneChunkEvents(fn, input))
    /\ Exhausted => events = OneChunkEvents(fn, input)
    /\ Exhausted /\ chunks = "many" /\ input \in SingleFrames(fn) => Len(FrameEvents) = 1

\* a frame with a two-byte character, delivered in several chunks, has
\* yielded its one chunk event
C1_Witness ==
    /\ Exhausted
    /\ chunks = "many"
    /\ input = BlockChunk
    /\ events = <<ChunkEvent(JStr(<<"U+00E9">>), Undefined), DoneEvent>>

(***************************************************************************)
(* C2.  Once the terminal marker is decoded (a line with payload [DONE],   *)
(* an `event: done` block) a terminal event is yielded for it and no frame *)
(* after it yields an event: a run that reads the body to     *)
(* its end has yielded the events of the frames before the first marker,   *)
(* then one terminal event, and nothing else.                              *)
(***************************************************************************)
IsMarker(f, frame) ==
    IF f \in LineFns THEN frame = DataPrefix \o DoneMarker
    ELSE BlockFields(Split(frame, <<NL>>), NameMessage, <<>>).eventType = NameDone

\* the frames before the first terminal marker
RECURSIVE BeforeMarker(_, _)
BeforeMarker(f, frames) ==
    IF frames = <<>> \/ IsMarker(f, Head(frames)) THEN <<>>
    ELSE <<Head(frames)>> \o BeforeMarker(f, Tail(frames))

HasMarker(f, frames) == \E i \in 1..Len(frames) : IsMarker(f, frames[i])

EndsAtMarker(f, evs, frames) ==
    /\ Len(evs) = Len(LoopEvents(f, BeforeMarker(f, frames))) + 1
    /\ AllButLast(evs) = LoopEvents(f, BeforeMarker(f, frames))

C2_TerminalMarkerEndsEvents ==
    Exhausted /\ HasMarker(fn, Frames(fn, input)) =>
        EndsAtMarker(fn, events, Frames(fn, input))

(***************************************************************************)
(* C3.  A block-grammar body whose last frame is an `event: done` block    *)
(* yields the events of the frames before it and then exactly one done     *)
(* event; chunk(He), chunk(llo), done yields exactly those three events.   *)
(***************************************************************************)
EndsWithDoneBlock(frames, text) ==
    /\ frames # <<>>
    /\ IsMarker("sendCharacterMessageStream", frames[Len(frames)])
    /\ text[Len(text)] = <<>>

C3_DoneBlockYieldsOneDone ==
    /\ Exhausted /\ fn \in BlockFns
         /\ EndsWithDoneBlock(Frames(fn, input),
                              Split(DecodeStream(input, <<>>).text, Delim(fn)))
       => events = LoopEvents(fn, AllButLast(Frames(fn, input))) \o <<DoneEvent>>
    /\ Exhausted /\ input = ScenarioHello
       => events = <<ChunkEvent(JStr(<<"H", "e">>), JStr(<<"m", "1">>)),
                     ChunkEvent(JStr(<<"l", "l", "o">>), JStr(<<"m", "1">>)),
                     DoneEvent>>

(***************************************************************************)
(* C4.  A frame whose payload is not valid JSON yields no event, no        *)
(* exception leaves the generator because of it, and decoding goes on: a   *)
(* run that reads the body to its end yields exactly the events of the     *)
(* body's other frames, in order.                                          *)
(***************************************************************************)
Payload(f, frame) ==
    IF f \in LineFns THEN (IF StartsWith(frame, DataPrefix) THEN Slice(frame, 6) ELSE <<>>)
    ELSE BlockFields(Split(frame, <<NL>>), NameMessage, <<>>).dataStr

\* the frame carries a payload and the payload is not valid JSON
Malformed(f, frame) == Payload(f, frame) # <<>> /\ ~JSONParse(Payload(f, frame)).ok

WellFormedFrames(f, frames) ==
    LET Keep(frame) == ~Malformed(f, frame) IN SelectSeq(frames, Keep)

C4_MalformedFrameSkipped ==
    /\ thrown # UncaughtError
    /\ Exhausted =>
         events = LoopEvents(fn, WellFormedFrames(fn, Frames(fn, input))) \o Closing(fn)
    /\ Exhausted /\ (\A i \in 1..Len(Frames(fn, input)) : Malformed(fn, Frames(fn, input)[i]))
         => FrameEvents = <<>>

\* a malformed line followed by a valid one: the valid one was yielded
C4_Witness ==
    /\ Exhausted
    /\ fn = "chatStream"
    /\ input = LineMalformed \o LineText
    /\ Len(events) = 1
    /\ events[1].message.k = "obj"

(***************************************************************************)
(* C5.  When the consumer abandons the event sequence the response body    *)
(* reader is released: no run that the consumer left ends with the reader  *)
(* still open.                                                             *)
(***************************************************************************)
C5_AbandonReleasesReader == pc = "returned" => reader # "open"

(***************************************************************************)
(* C6.  Zero bytes (the first read signals end of stream): as claimed,     *)
(* every generator yields zero events and completes without error.         *)
(***************************************************************************)
EmptyStream == ResOk(status) /\ hasBody /\ input = <<>> /\ reader = "closed"

C6_EmptyStreamYieldsNothing ==
    EmptyStream => events = <<>> /\ pc = "done" /\ outcome = "completed"

(***************************************************************************)
(* C6 as amended.  On zero bytes chatStream and chatWithAgentStream yield  *)
(* zero events and complete without error; sendCharacterMessageStream      *)
(* yields exactly one event, the done event it yields after its read loop, *)
(* and completes without error.                                            *)
(***************************************************************************)
C6_EmptyStreamAmended ==
    EmptyStream =>
        /\ events = Closing(fn)
        /\ thrown = <<>>
        /\ pc \in {"done", "yieldFinal", "returned"}
        /\ outcome \in {"completed", "running", "broke"}
        /\ fn \in LineFns => pc = "done" /\ outcome = "completed"

\* sendCharacterMessageStream has completed on an empty body
C6_Witness ==
    /\ EmptyStream
    /\ fn = "sendCharacterMessageStream"
    /\ pc = "done"
    /\ outcome = "completed"
    /\ events = <<DoneEvent>>

(***************************************************************************)
(* C7.  Line grammar: a complete line yields the parsed payload if and     *)
(* only if it starts with "data: ", its payload is valid JSON and its      *)
(* payload is not exactly [DONE]; so a run that reads the body to its end  *)
(* has yielded exactly the parsed payloads of those lines, in order.       *)
(***************************************************************************)
RECURSIVE PayloadsOf(_)
PayloadsOf(lines) ==
    IF lines = <<>> THEN <<>>
    ELSE (IF /\ StartsWith(Head(lines), DataPrefix)
             /\ Slice(Head(lines), 6) # DoneMarker
             /\ JSONParse(Slice(Head(lines), 6)).ok
          THEN <<PayloadEvent(JSONParse(Slice(Head(lines), 6)).v)>>
          ELSE <<>>) \o PayloadsOf(Tail(lines))

C7_LineYieldsIffDataJson ==
    Exhausted /\ fn \in LineFns => events = PayloadsOf(Frames(fn, input))

(***************************************************************************)
(* C8.  sendCharacterMessageStream, as claimed: every run that started     *)
(* streaming ends with a done event.                                       *)
(***************************************************************************)
C8_EveryRunEndsWithDone ==
    fn \in BlockFns /\ reader # "none" /\ pc \in {"done", "threw"} =>
        events # <<>> /\ events[Len(events)] = DoneEvent

(***************************************************************************)
(* C8 as amended.  When the source reaches end of stream, exactly one done *)
(* event is yielded after the read loop and it is the last event; if no    *)
(* `event: done` block was decoded before, it is the only done event.  A   *)
(* run whose read() rejects ends with that exception and yields no done    *)
(* event after it.                                                         *)
(* A run that never takes the reader (failed or body-less response) yields *)
(* no done event.                                                          *)
(***************************************************************************)
DoneCount(evs) == Cardinality({i \in 1..Len(evs) : evs[i].type = "done"})

DoneAtEndOfStream ==
    fn \in BlockFns =>
        /\ reader = "closed" =>
             /\ events = LoopEvents(fn, Frames(fn, input)) \o <<DoneEvent>>
             /\ (~HasMarker(fn, Frames(fn, input)) => DoneCount(events) = 1)
        /\ reader = "errored" => pc = "threw" /\ outcome = "rejected"
        /\ reader = "none" => DoneCount(events) = 0

ReadErrorYieldsNothing == fn \in BlockFns /\ reader' = "errored" => UNCHANGED events

C8_DoneAtEndOfStream == []DoneAtEndOfStream /\ [][ReadErrorYieldsNothing]_vars

\* a body without a done block was read to its end: one done event, last
C8_Witness ==
    /\ Exhausted
    /\ fn \in BlockFns
    /\ input = BlockChunk \o BlockThinking
    /\ Len(events) = 3
    /\ events[3] = DoneEvent
    /\ DoneCount(events) = 1

(***************************************************************************)
(* C9.  On a non-success response the decoder never starts: no reader is   *)
(* taken, read() delivers nothing, no frame is decoded; chatStream and     *)
(* chatWithAgentStream throw an error that carries the status,             *)
(* sendCharacterMessageStream yields one error event and finishes.         *)
(***************************************************************************)
C9_FailedResponseNeverDecodes ==
    ~ResOk(status) =>
        /\ reader = "none" /\ pos = 0 /\ chunks = "none" /\ buffer = <<>> /\ queue = <<>>
        /\ pc \in {"start", "threw", "yieldError", "done", "returned"}
        /\ fn \in LineFns =>
             /\ events = <<>>
             /\ pc \in {"start", "threw"}
             /\ pc = "threw" => Includes(thrown, StatusText(status)) /\ outcome = "rejected"
        /\ fn \in BlockFns =>
             /\ pc # "threw"
             /\ pc = "start" => events = <<>>
             /\ pc # "start" =>
                  /\ Len(events) = 1
                  /\ events[1].type = "error"
                  /\ Includes(events[1].error.s, StatusText(status))

\* chatStream has thrown on a 500 response
C9_Witness ==
    /\ fn = "chatStream"
    /\ status = 500
    /\ pc = "threw"
    /\ Includes(thrown, <<"5", "0", "0">>)
    /\ events = <<>>

(***************************************************************************)
(* C10.  sendCharacterMessageStream: an error event decoded from an        *)
(* `event: error` block is terminal, no event is yielded after it.         *)
(***************************************************************************)
C10_ErrorEventIsLast ==
    fn \in BlockFns /\ reader # "none" =>
        \A i \in 1..Len(events) : events[i].type = "error" => i = Len(events)

(***************************************************************************)
(* C11.  Events are yielded in the order of their frames: at any moment,   *)
(* under any chunking, the events yielded from the read loop are a prefix  *)
(* of the concatenation, frame after frame in stream order, of the events  *)
(* each frame yields on its own; a run that reads the body to its end has  *)
(* yielded exactly that concatenation (nothing reordered, nothing merged). *)
(***************************************************************************)
OwnEvents(f, frame) == LoopEvents(f, <<frame>>)

RECURSIVE InFrameOrder(_, _)
InFrameOrder(f, frames) ==
    IF frames = <<>> THEN <<>>
    ELSE OwnEvents(f, Head(frames)) \o InFrameOrder(f, Tail(frames))

C11_EventsInFrameOrder ==
    /\ EventsChanged => IsPrefix(FrameEvents, InFrameOrder(fn, Frames(fn, input)))
    /\ Exhausted => FrameEvents = InFrameOrder(fn, Frames(fn, input))

\* a chunk block then a thinking block, delivered in several chunks: the
\* chunk event came first
C11_Witness ==
    /\ Exhausted
    /\ chunks = "many"
    /\ input = BlockChunk \o BlockThinking
    /\ Len(events) = 3
    /\ events[1].type = "chunk"
    /\ events[2].type = "thinking"

(***************************************************************************)
(* C12.  At end of stream the text left in the buffer is discarded: the    *)
(* step in which read() reports the end yields no event for it (only the   *)
(* closing done of sendCharacterMessageStream is yielded), even when the   *)
(* leftover is a complete `data: ` payload without its delimiter.          *)
(***************************************************************************)
C12_LeftoverDiscarded ==
    [][pc = "reading" /\ reader' = "closed" => events' = events \o Closing(fn)]_vars

\* a valid line followed by `data: 1` without its newline: the stream has
\* ended with the leftover still in the buffer and one event yielded
C12_Witness ==
    /\ Exhausted
    /\ input = LineText \o LineUnterminated
    /\ buffer = LineUnterminated
    /\ Len(events) = 1

(***************************************************************************)
(* C13.  As claimed: once a terminal frame was decoded (a [DONE] line, an  *)
(* `event: done` block) and the frames before it were handed over, the     *)
(* generator completes; it does not go back to reader.read().              *)
(***************************************************************************)
C13_CompletesAtTerminalEvent ==
    /\ reader = "open"
    /\ queue = <<>>
    /\ HasMarker(fn, Frames(fn, SubSeq(input, 1, pos)))
    => pc # "reading"

(***************************************************************************)
(* sendCharacterMessage, seen from its events.                             *)
(***************************************************************************)

\* the events the consumer has taken from the generator and handled
Handled == IF AtYield THEN AllButLast(events) ELSE events

OfType(evs, type) == LET Is(e) == e.type = type IN SelectSeq(evs, Is)

\* the texts of the chunk events, as fullText += event.text joins them
RECURSIVE Joined(_)
Joined(evs) == IF evs = <<>> THEN <<>> ELSE ToStr(Head(evs).text) \o Joined(Tail(evs))

\* the arguments of the onChunk calls the chunk events call for
ChunkArgs(evs) == [i \in 1..Len(evs) |-> evs[i].text]

\* the events before the first done event
RECURSIVE BeforeDone(_)
BeforeDone(evs) ==
    IF evs = <<>> \/ Head(evs).type = "done" THEN <<>>
    ELSE <<Head(evs)>> \o BeforeDone(Tail(evs))

(***************************************************************************)
(* C14.  As claimed: sendCharacterMessage stops aggregating at the first   *)
(* done event; the text it returns and its onChunk calls come from the     *)
(* chunk events before the first done event only.                          *)
(***************************************************************************)
C14_DoneEndsAggregation ==
    consumer = "sendCharacterMessage" =>
        /\ fullText = Joined(OfType(BeforeDone(Handled), "chunk"))
        /\ onChunk = ChunkArgs(OfType(BeforeDone(Handled), "chunk"))

C16_AbortsOnFirstError ==
    consumer = "sendCharacterMessage" /\ OfType(events, "error") # <<>> =>
        /\ Len(OfType(events, "error")) = 1
        /\ LastEvent.type = "error"
        /\ pc \in {"yieldFrame", "yieldError", "returned"}
        /\ pc = "returned" => outcome = "rejected" /\ failure = ToStr(LastEvent.error)
        /\ pc # "returned" => outcome = "running"
        /\ fullText = Joined(OfType(AllButLast(events), "chunk"))
        /\ onChunk = ChunkArgs(OfType(AllButLast(events), "chunk"))
        /\ onThinking = Len(OfType(AllButLast(events), "thinking"))

\* an error block followed by a chunk block: rejected with the error's
\* message, the chunk never reached onChunk
C16_Witness ==
    /\ consumer = "sendCharacterMessage"
    /\ input = BlockError \o BlockChunk
    /\ outcome = "rejected"
    /\ failure = <<"x">>
    /\ events = <<ErrorEvent(JStr(<<"x">>))>>
    /\ onChunk = <<>>

(***************************************************************************)
(* C19.  Buffer invariant: once a chunk was appended and scanned, the      *)
(* buffer of chatStream / chatWithAgentStream contains no "\n" and the     *)
(* buffer of sendCharacterMessageStream contains no "\n\n": it never holds  *)
(* a complete frame, only the incomplete frame at the end of the text.     *)
(***************************************************************************)
C19_BufferHoldsNoFrame ==
    /\ ~Includes(buffer, Delim(fn))
    /\ reader = "open" /\ pos > 0 =>
          buffer = Split(DecodeStream(SubSeq(input, 1, pos), <<>>).text, Delim(fn))
                     [Len(Frames(fn, SubSeq(input, 1, pos))) + 1]

\* a frame was scanned and yielded while the start of the next frame stays
\* in the buffer
C19_Witness ==
    /\ reader = "open"
    /\ events # <<>>
    /\ buffer # <<>>
    /\ pos < Len(input)

(***************************************************************************)
(* C20.  Within one block the event name is the value of its `event: `     *)
(* line ("message" when it has none) and the payload is the contents of    *)
(* its `data: ` lines joined in order without separator and parsed as JSON *)
(* once; a block without `data: ` content yields no event.  A run that     *)
(* reads the body to its end has yielded, block after block, the event of  *)
(* that name and payload.                                                  *)
(***************************************************************************)
FieldLines(block, prefix) ==
    LET Has(line) == StartsWith(line, prefix) IN SelectSeq(Split(block, <<NL>>), Has)

RECURSIVE JoinedFrom(_, _)
JoinedFrom(lines, n) ==
    IF lines = <<>> THEN <<>> ELSE Slice(Head(lines), n) \o JoinedFrom(Tail(lines), n)

NamedEvent(names) ==
    IF names = <<>> THEN NameMessage ELSE Trim(Slice(names[Len(names)], 7))

EventOf(name, r) ==
    IF r.ok /\ BlockSwitch(name, r.v).kind = "yield" THEN <<BlockSwitch(name, r.v).ev>>
    ELSE <<>>

BlockEvent(block) ==
    IF FieldLines(block, DataPrefix) = <<>> THEN <<>>
    ELSE EventOf(NamedEvent(FieldLines(block, EventPrefix)),
                 JSONParse(JoinedFrom(FieldLines(block, DataPrefix), 6)))

RECURSIVE BlockEvents(_)
BlockEvents(blocks) ==
    IF blocks = <<>> THEN <<>> ELSE BlockEvent(Head(blocks)) \o BlockEvents(Tail(blocks))

C20_BlockNameAndPayload ==
    Exhausted /\ fn \in BlockFns => FrameEvents = BlockEvents(Frames(fn, input))

\* a block without an event line whose payload is split over two data
\* lines, then a block with an event line and no data line: one message
\* event carrying the joined payload, then the closing done
C20_Witness ==
    /\ Exhausted
    /\ input = BlockSplitData \o BlockNoData
    /\ Len(events) = 2
    /\ events[1].type = "message"
    /\ events[1].message = JSONParse(<<"{", "\"", "a", "\"", ":", "1", "}">>).v

(***************************************************************************)
(* C17.  getBalance, as claimed: it asks for the app-specific balance      *)
(* exactly when the user is authenticated (the request was made with a     *)
(* stored token) and for the organisation's balance otherwise.             *)
(***************************************************************************)
BalancePaths == {AppBalancePath, OrgBalancePath}

C18_SignOutClearsSession ==
    [][/\ signOuts' # signOuts => localStorage' = NoItems
       /\ signOutPc = "idle" /\ signOuts' # signOuts =>
             ~Filled(getToken) /\ requests' = requests
       /\ signOutPc = "idle" /\ signOutPc' = "logout" =>
             /\ Filled(getToken)
             /\ requests' = Append(requests, LogoutRequest)
             /\ signOuts' = signOuts]_vars

\* the logout request of a signed-in user was never answered: signOut has
\* completed and the token and the cached user are gone
C18_Witness ==
    /\ signOuts = 1
    /\ requests = <<[path |-> LogoutPath, app_id |-> Null, method |-> "POST",
                     authorization |-> "t1", xAppId |-> appId]>>
    /\ settled = <<[path |-> LogoutPath, response |-> "failed"]>>
    /\ localStorage = NoItems
    /\ reloads = 1

(***************************************************************************)
(* Generators side by side.                                                *)
(***************************************************************************)

\* the bytes generator g has read so far
ReadSoFar(g) == SubSeq(g.input, 1, g.pos)

\* the events a generator yields when it runs alone on the stream of g and
\* has come as far as g
AloneEvents(g) ==
    LoopEvents(g.fn, Frames(g.fn, ReadSoFar(g)))
        \o (IF g.pc = "done" THEN Closing(g.fn) ELSE <<>>)

YieldsAsAlone == \A i \in GeneratorIds : generators[i].events = AloneEvents(generators[i])

OthersUntouched ==
    \A i \in GeneratorIds :
        generators'[i] # generators[i] =>
            \A j \in GeneratorIds \ {i} : generators'[j] = generators[j]

\* C21: when two streams are consumed side by side with their reads
\* interleaved in any order, each generator yields exactly the events it
\* yields when run alone on its own stream, and a step of one generator
\* leaves the buffer, the decoder and every other local of the other alone
C21_DecodersIsolated == []YieldsAsAlone /\ [][OthersUntouched]_vars

\* both generators have read part of their streams, in turns, and hold
\* different text in their buffers
C21_Witness ==
    /\ generators # <<>>
    /\ generators[1].pos > 0 /\ generators[1].pos < Len(generators[1].input)
    /\ generators[2].pos > generators[1].pos /\ generators[2].pos < Len(generators[2].input)
    /\ generators[1].buffer # <<>>
    /\ generators[2].buffer # <<>>
    /\ generators[1].buffer # generators[2].buffer
    /\ generators[2].events # <<>>

\* the last chunk of g began inside a two-byte character: its first byte
\* ended the chunk before
SplitCharacter(g) ==
    /\ g.value # <<>>
    /\ g.pos > Len(g.value)
    /\ IsLead(g.input[g.pos - Len(g.value)])
    /\ IsCont(g.value[1])

\* the buffer of g when everything read so far arrives in one chunk
WholeBuffer(g) ==
    Split(DecodeStream(ReadSoFar(g), <<>>).text, Delim(g.fn))[
        Len(Split(DecodeStream(ReadSoFar(g), <<>>).text, Delim(g.fn)))]

HasChar(text, c) == \E k \in 1..Len(text) : text[k] = c

\* C22: a two-byte character whose bytes are split across two consecutive
\* chunks reaches the buffer as the same single character as when its bytes
\* arrive in one chunk: the decoder carries the first byte to the next chunk
\* and emits no partial or replacement character
C22_SplitCharacterDecodedWhole ==
    \A i \in GeneratorIds :
        /\ generators[i].pc = "reading" =>
             /\ generators[i].buffer = WholeBuffer(generators[i])
             /\ generators[i].pend = DecodeStream(ReadSoFar(generators[i]), <<>>).pend
             /\ ~HasChar(generators[i].buffer, "U+FFFD")
        /\ ~HasChar(generators[i].buffer, "xC3")
        /\ ~HasChar(generators[i].buffer, "xA9")

\* the chunk before ended with the first byte of the character, the last
\* chunk began with its second byte, and the character is in the buffer
C22_Witness ==
    /\ generators # <<>>
    /\ SplitCharacter(generators[1])
    /\ generators[1].buffer # <<>>
    /\ generators[1].buffer[Len(generators[1].buffer)] = "U+00E9"

(***************************************************************************)
(* eliza-auth and useElizaAuth.                                            *)
(***************************************************************************)

\* the fetch() that settled in this step, and how
JustSettled == settled'[Len(settled')]

GetUserSettles == getUserCall.pc = "fetch" /\ getUserCall'.pc = "idle"

RefreshSettles == refreshCall.pc = "fetch" /\ refreshCall'.pc = "idle"

\* the token and the cached user as getToken() and getCachedUser() show them
StoredSession(stored) == <<stored.eliza_app_token, getCachedUser(stored)>>

ClearsExactlyOn401 ==
    /\ GetUserSettles \/ RefreshSettles =>
         /\ JustSettled.response = "401" => localStorage' = Cleared(localStorage)
         /\ JustSettled.response \in {"500", "failed"} =>
              /\ localStorage' = localStorage
              /\ cachedAt' = cachedAt
         /\ JustSettled.response # "401" /\ localStorage.eliza_app_token # Null =>
              localStorage'.eliza_app_token # Null
    /\ GetUserSettles /\ JustSettled.response \in {"401", "500", "failed"} =>
         getUserCall'.result = Null
    /\ RefreshSettles /\ JustSettled.response \in {"401", "500", "failed"} =>
         refreshCall'.result = FALSE
    /\ /\ getUserCall.pc = "idle" /\ getUserCall'.pc = "fetch"
       /\ getUserCall'.caller = "hook" /\ ~RefreshSettles
       => StoredSession(localStorage') = StoredSession(localStorage)
    /\ refreshCall.pc = "idle" /\ refreshCall'.pc = "fetch" => localStorage' = localStorage

\* C26: getUser and refreshSession clear the stored token and the cached
\* user exactly when the server answers 401; on another non-success status
\* and on a rejected fetch() the token and the cached user stay as they are
\* and the function returns null / false (before its request getUser only
\* drops a cached user that is no longer valid)
C26_ClearsExactlyOn401 == [][ClearsExactlyOn401]_vars

\* a session request was answered with 401 and the token and the cached
\* user are gone; a refresh request was answered with 500 and they are kept
C26_Witness ==
    /\ Len(settled) = 2
    /\ settled[1] = [path |-> RefreshPath, response |-> "500"]
    /\ settled[2] = [path |-> SessionPath, response |-> "401"]
    /\ localStorage = NoItems
    /\ getUserCall.pc = "idle"
    /\ getUserCall.result = Null

\* C27: the user handleCallback returns after storing the token of the URL
\* is the user the session endpoint reports for that token (or none), never
\* a user cached under a token stored before
C27_CallbackReturnsUserOfToken ==
    callback.pc = "done" /\ hasWindow => callback.result \in {Null, UserOf(callback.token)}

\* C28: whenever useElizaAuth reports isAuthenticated (its user is set), a
\* token is stored
C28_AuthenticatedHasToken == hook.user # Null => isAuthenticated

(***************************************************************************)
(* The hooks of use-eliza.ts and ChatInterface.                            *)
(***************************************************************************)

\* the user messages in the list, as the numbers of the calls they are from
RECURSIVE UserCalls(_)
UserCalls(messages) ==
    IF messages = <<>> THEN {}
    ELSE (IF Head(messages).role = "user" THEN {Head(messages).content} ELSE {})
         \cup UserCalls(Tail(messages))

\* C23: a useAgentChat.send call that fails removes the user message it
\* appended itself and no other: the user messages in the list are those of
\* the calls that have not failed, however the calls overlap
C23_FailureRemovesOwnMessage ==
    component = "AgentChat" =>
        UserCalls(agentChat.messages)
            = {call \in 1..Len(agentChat.calls) : agentChat.calls[call] # "failed"}

\* C24: loading of useChat is true exactly while a send call has not
\* settled, also when calls overlap
C24_LoadingWhileInFlight == component = "Chat" => (chat.loading <=> chat.pending > 0)

\* the last message of ChatInterface
LastMessage == chatInterface.messages[Len(chatInterface.messages)]

\* C25: after the streaming request of handleSend has failed, the last
\* assistant message holds the error text and is not empty
C25_FailureShowsErrorText ==
    component = "ChatInterface" /\ chatInterface.error # <<>> =>
        /\ LastMessage.content = ErrorText(chatInterface.error[1])
        /\ LastMessage.content # <<>>

\* C29: while no reset is requested useCharacterChat starts at most one
\* createRoom request on its own
C29_CreatesRoomAtMostOnce ==
    component = "CharacterChat" /\ characterChat.resets = 0 => characterChat.requests <= 1

====
